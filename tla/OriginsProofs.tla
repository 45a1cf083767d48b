--------------------------- MODULE OriginsProofs ---------------------------
(***************************************************************************)
(* The properties of Origins, for any origins, users and lengths of the    *)
(* day, as long as requests are shorter than it.                           *)
(***************************************************************************)

EXTENDS Origins, TLAPS

LEMMA InitInv == Init => IInv
BY TimeAssumption, UrlAssumption
DEF Init, IInv, TypeOK, RowInv, RequestInv, SeenInv, Has, NoRow, Covers

-----------------------------------------------------------------------------
(* The types.                                                              *)

\* The request under way is about an origin.
LEMMA AtOrigin ==
    ASSUME IInv, NEW p \in Users, pc[p] # "idle" PROVE at[p] \in Urls
BY DEF IInv, RequestInv

LEMMA TypeInv == ASSUME IInv, [Next]_vars PROVE TypeOK'
<1> TypeOK
  BY DEF IInv
<1> USE DEF TypeOK, request, directory, world
<1>1. CASE UNCHANGED vars
  BY <1>1 DEF vars
<1>2. ASSUME NEW u \in Urls, Archive(u) PROVE TypeOK'
  BY <1>2 DEF Archive
<1>3. CASE Tick
  BY <1>3 DEF Tick
<1>4. CASE SetClock
  BY <1>4 DEF SetClock
<1>5. ASSUME NEW p \in Users, NEW u \in Urls, Lookup(p, u) PROVE TypeOK'
  BY <1>5 DEF Lookup, Begin
<1>6. ASSUME NEW p \in Users, List(p) PROVE TypeOK'
  BY <1>6 DEF List, Begin
<1>7. ASSUME NEW p \in Users, Evict(p) PROVE TypeOK'
  BY <1>7 DEF Evict
<1>8. ASSUME NEW p \in Users, Step(p) PROVE TypeOK'
  <2>0. pc[p] # "idle" => at[p] \in Urls
    BY AtOrigin
  <2>a. ASSUME End(p), UNCHANGED <<world, rows, lost, directory>> PROVE TypeOK'
    BY <2>a DEF End
  <2>b. ASSUME NEW l \in {"get", "fetch"}, GoTo(p, l), UNCHANGED <<world, rows, lost>>
        PROVE TypeOK'
    BY <2>b DEF GoTo
  <2>c. ASSUME Answer(p), at[p] \in Urls, UNCHANGED <<world, rows, lost>> PROVE TypeOK'
    BY <2>c DEF Answer, End
  <2>d. ASSUME EndInError(p), UNCHANGED <<world, rows, lost>> PROVE TypeOK'
    BY <2>d DEF EndInError, End
  <2>1. CASE ListNames(p)
    BY <2>1, <2>a, <2>b DEF ListNames
  <2>2. CASE Get(p)
    BY <2>0, <2>2, <2>b, <2>c DEF Get
  <2>3. CASE Fetch(p)
    <3>1. pc[p] = "fetch" /\ visits[at[p]] \in Seq(Nat) /\ Len(visits[at[p]]) \in Nat
      BY <2>0, <2>3 DEF Fetch
    <3>2. CASE /\ pc' = [pc EXCEPT ![p] = "store"]
               /\ fetched' = [fetched EXCEPT ![p] = Len(visits[at[p]])]
               /\ overlapped' = overlapped \ {p}
               /\ UNCHANGED <<op, began, directory>>
      BY <2>3, <3>1, <3>2 DEF Fetch
    <3> QED BY <2>3, <3>2, <2>d DEF Fetch
  <2>4. CASE Store(p)
    <3>1. clock \in Nat /\ fetched[p] \in Nat /\ at[p] \in Urls
      BY <2>0, <2>4, TimeAssumption DEF Store, clock
    <3> QED BY <2>4, <3>1 DEF Store
  <2>5. CASE Reget(p)
    BY <2>0, <2>5, <2>c, <2>d DEF Reget
  <2>6. CASE Fail(p)
    BY <2>6, <2>d DEF Fail
  <2> QED BY <1>8, <2>1, <2>2, <2>3, <2>4, <2>5, <2>6 DEF Step
<1> QED BY <1>1, <1>2, <1>3, <1>4, <1>5, <1>6, <1>7, <1>8 DEF Next

-----------------------------------------------------------------------------
(* Rows, requests and what users saw.                                      *)

\* An answer of the back-end has all that was archived when its request began.
LEMMA AnswerCovers ==
    ASSUME IInv, NEW p \in Users, Fetch(p), pc'[p] # "idle"
    PROVE /\ fetched'[p] \in 0 .. Len(visits[at[p]])
          /\ fetched'[p] = Len(visits[at[p]])
          /\ Covers(at[p], fetched'[p], began[p] - 1)
          /\ rows[at[p]].count <= fetched'[p]
<1>1. at[p] \in Urls /\ visits[at[p]] \in Seq(Nat) /\ Len(visits[at[p]]) \in Nat
  BY AtOrigin DEF Fetch, IInv, TypeOK
<1>2. fetched'[p] = Len(visits[at[p]])
  BY DEF Fetch, EndInError, End, IInv, TypeOK
<1>3. fetched'[p] \in 0 .. Len(visits[at[p]])
  BY <1>1, <1>2
<1>4. rows[at[p]].count <= Len(visits[at[p]])
  BY <1>1 DEF IInv, RowInv
<1> QED BY <1>1, <1>2, <1>3, <1>4 DEF Covers

LEMMA RowsInv ==
    ASSUME IInv, [Next]_vars, NEW u \in Urls PROVE RowInv(u)'
<1> USE DEF world
<1>1. RowInv(u) /\ TypeOK /\ TypeOK'
  BY TypeInv DEF IInv
<1>2. /\ visits[u] \in Seq(Nat) /\ Len(visits[u]) \in Nat
      /\ rows[u].count \in Int /\ rows[u].itime \in Nat /\ time \in Nat
  BY <1>1 DEF TypeOK
<1>3. ASSUME UNCHANGED <<rows, visits>>, time' \in Nat, time <= time' PROVE RowInv(u)'
  BY <1>1, <1>2, <1>3, TimeAssumption DEF RowInv, Covers, Has
<1>4. ASSUME NEW o \in Urls, Archive(o) PROVE RowInv(u)'
  <2>1. CASE o # u
    BY <1>1, <1>2, <1>4, <2>1 DEF Archive, TypeOK, RowInv, Covers, Has
  <2>2. CASE o = u
    <3>1. visits'[u] = Append(visits[u], time) /\ rows' = rows /\ time' = time
      BY <1>1, <1>4, <2>2 DEF Archive, TypeOK
    <3>2. /\ Len(visits'[u]) = Len(visits[u]) + 1
          /\ visits'[u][Len(visits[u]) + 1] = time
          /\ \A k \in 1 .. Len(visits[u]) : visits'[u][k] = visits[u][k]
      BY <1>2, <3>1
    <3>3. Has(u) => ~(time <= rows[u].itime - (Slow + Shift + 1))
      BY <1>1, <1>2, TimeAssumption DEF RowInv
    <3> QED BY <1>1, <1>2, <3>1, <3>2, <3>3, TimeAssumption, SMTT(30) DEF RowInv, Covers, Has
  <2> QED BY <2>1, <2>2
<1>5. ASSUME NEW p \in Users, Store(p) PROVE RowInv(u)'
  <2>1. at[p] \in Urls /\ RequestInv(p) /\ fetched[p] \in Nat /\ began[p] \in Nat
        /\ offset \in Nat /\ offset <= Shift
    BY <1>1, <1>5, AtOrigin, TimeAssumption DEF Store, IInv, TypeOK
  <2>2. CASE at[p] # u
    BY <1>1, <1>2, <1>5, <2>2 DEF Store, TypeOK, RowInv, Covers, Has
  <2>3. CASE at[p] = u
    <3>1. /\ rows'[u].count = fetched[p] /\ rows'[u].itime = time + offset
          /\ visits' = visits /\ time' = time
      BY <1>1, <1>5, <2>1, <2>3 DEF Store, TypeOK, clock
    <3>2. /\ fetched[p] <= Len(visits[u]) /\ Covers(u, fetched[p], began[p] - 1)
          /\ time <= began[p] + Slow
      BY <1>5, <2>1, <2>3, <1>2 DEF Store, RequestInv
    <3>3. \A n : n <= time + offset - (Slow + Shift + 1) /\ n \in Nat => n <= began[p] - 1
      BY <1>2, <2>1, <3>2, TimeAssumption
    <3>4. Covers(u, fetched[p], time + offset - (Slow + Shift + 1))
      BY <1>2, <3>2, <3>3 DEF Covers
    <3>5. Covers(u, rows[u].count, rows[u].itime - (Slow + Shift + 1))'
      BY <1>2, <2>1, <3>1, <3>4, TimeAssumption DEF Covers
    <3>6. rows'[u].count <= Len(visits'[u])
      BY <3>1, <3>2
    <3>7. rows'[u].itime <= time' + Shift
      BY <1>2, <2>1, <3>1, TimeAssumption
    <3> QED BY <3>5, <3>6, <3>7 DEF RowInv
  <2> QED BY <2>2, <2>3
<1>6. ASSUME NEW p \in Users, Step(p), ~Store(p) PROVE UNCHANGED <<rows, visits, time>>
  BY <1>6 DEF Step, ListNames, Get, Fetch, Reget, Fail
<1>7. CASE Tick
  BY <1>2, <1>3, <1>7 DEF Tick
<1> QED
  BY <1>2, <1>3, <1>4, <1>5, <1>6, <1>7
  DEF Next, vars, SetClock, Lookup, List, Evict

\* Other users' requests leave this one as it was, or mark it.
LEMMA RequestsInv ==
    ASSUME IInv, [Next]_vars, NEW p \in Users PROVE RequestInv(p)'
<1> USE DEF world, directory, request
<1>1. RequestInv(p) /\ TypeOK /\ TypeOK' /\ (pc[p] # "idle" => at[p] \in Urls)
  BY TypeInv DEF IInv, RequestInv
<1>2. /\ time \in Nat /\ began[p] \in Nat /\ fetched[p] \in Nat
      /\ \A u \in Urls : /\ visits[u] \in Seq(Nat) /\ Len(visits[u]) \in Nat
                        /\ rows[u].count \in Int /\ rows[u].itime \in Nat
  BY <1>1 DEF TypeOK
<1>3. ASSUME UNCHANGED <<pc, at, began, fetched, overlapped, visits, rows, time>>
      PROVE RequestInv(p)'
  BY <1>1, <1>3 DEF RequestInv, Covers, Has
<1>4. ASSUME NEW o \in Urls, Archive(o) PROVE RequestInv(p)'
  <2>1. CASE at[p] \notin Urls \/ pc[p] \notin {"store"}
    BY <1>1, <1>4, <2>1 DEF Archive, RequestInv, Has
  <2>2. CASE at[p] \in Urls /\ pc[p] = "store"
    <3> DEFINE old == visits[at[p]]
               new == visits'[at[p]]
    <3>1. new = old \/ new = Append(old, time)
      BY <1>1, <1>4, <2>2 DEF Archive, TypeOK
    <3>2. /\ Len(old) <= Len(new)
          /\ \A k \in 1 .. Len(new) : (k \in 1 .. Len(old) /\ new[k] = old[k]) \/ new[k] = time
      BY <1>2, <2>2, <3>1
    <3>3. ~(time <= began[p] - 1)
      BY <1>1, <1>2, <2>2 DEF RequestInv
    <3> QED BY <1>1, <1>2, <1>4, <2>2, <3>2, <3>3 DEF Archive, RequestInv, Covers, Has
  <2> QED BY <2>1, <2>2
<1>5. CASE Tick
  <2>1. pc[p] # "idle" => began[p] <= time' /\ time' <= began[p] + Slow
    BY <1>1, <1>2, <1>5, TimeAssumption DEF Tick, RequestInv
  <2> QED BY <1>1, <1>5, <2>1 DEF Tick, RequestInv, Covers, Has
<1>6. ASSUME NEW q \in Users, Step(q), q # p PROVE RequestInv(p)'
  <2>1. UNCHANGED <<pc[p], began[p], fetched[p]>> /\ (at[p] \in Urls => at'[p] = at[p])
        /\ UNCHANGED <<visits, time>>
    <3>1. ASSUME End(q) PROVE UNCHANGED <<pc[p], began[p], fetched[p]>>
      BY <1>1, <1>6, <3>1 DEF TypeOK, End
    <3>2. ASSUME EndInError(q)
          PROVE UNCHANGED <<pc[p], began[p], fetched[p]>> /\ at'[p] = at[p]
      BY <1>1, <1>6, <3>1, <3>2 DEF TypeOK, EndInError
    <3>3. ASSUME NEW l, GoTo(q, l)
          PROVE UNCHANGED <<pc[p], began[p], fetched[p], at>>
      BY <1>1, <1>6, <3>3 DEF TypeOK, GoTo
    <3>4. ASSUME Answer(q) PROVE UNCHANGED <<pc[p], began[p], fetched[p], at>>
      BY <3>1, <3>4 DEF Answer
    <3>5. CASE ListNames(q) \/ Get(q)
      BY <3>1, <3>3, <3>4, <3>5 DEF ListNames, Get
    <3>6. CASE Fetch(q)
      BY <1>1, <1>6, <3>2, <3>6 DEF Fetch, TypeOK
    <3>7. CASE Store(q)
      BY <1>1, <1>6, <3>7 DEF Store, TypeOK
    <3>8. CASE Reget(q) \/ Fail(q)
      BY <3>2, <3>4, <3>8 DEF Reget, Fail
    <3> QED BY <1>6, <3>5, <3>6, <3>7, <3>8 DEF Step
  <2>2. CASE Store(q)
    <3>1. at[q] \in Urls /\ offset \in Nat /\ RequestInv(q) /\ at' = at
      BY <1>1, <2>2, AtOrigin, TimeAssumption DEF Store, TypeOK, IInv
    <3>2. pc[p] = "store" /\ at[p] = at[q] => p \in overlapped'
      BY <1>6, <2>2 DEF Store
    <3>3. p \in overlapped => p \in overlapped'
      BY <2>2 DEF Store
    <3>4. \A u \in Urls : u # at[q] => rows'[u] = rows[u]
      BY <1>1, <2>2 DEF Store, TypeOK
    <3>5. /\ rows'[at[q]].count = fetched[q] /\ rows'[at[q]].itime = time + offset
          /\ Has(at[q])'
      BY <1>1, <2>2, <3>1 DEF Store, TypeOK, clock, RequestInv, Has, NoRow
    <3>6. pc[p] = "reget" /\ at[p] = at[q] => began[p] <= rows'[at[p]].itime
      BY <1>1, <1>2, <3>1, <3>5 DEF RequestInv
    <3>7. pc[p] = "reget" => Has(at[p])' /\ began'[p] <= rows'[at'[p]].itime
      BY <1>1, <2>1, <3>1, <3>4, <3>5, <3>6 DEF RequestInv, Has
    <3> QED BY <1>1, <2>1, <3>1, <3>2, <3>3, <3>4, <3>7 DEF RequestInv, Covers
  <2>3. CASE ~Store(q)
    <3>1. rows' = rows /\ (p \in overlapped => p \in overlapped')
      BY <1>6, <2>3
      DEF Step, ListNames, Get, Fetch, Reget, Fail, Answer, End, EndInError, GoTo
    <3> QED BY <1>1, <2>1, <3>1 DEF RequestInv, Covers, Has
  <2> QED BY <2>2, <2>3
<1>7. CASE Step(p)
  <2>1. CASE pc'[p] = "idle"
    BY <2>1 DEF RequestInv
  <2>2. CASE Fetch(p) /\ pc'[p] # "idle"
    <3>1. pc'[p] = "store" /\ UNCHANGED <<at, began, rows, visits, time>> /\ pc[p] = "fetch"
      BY <1>1, <2>2 DEF Fetch, EndInError, End, TypeOK
    <3> QED BY <1>1, <2>2, <3>1, AnswerCovers DEF RequestInv, Covers
  <2>3. CASE Store(p)
    <3>1. offset \in Nat /\ at[p] \in Urls
      BY <1>1, <2>3, TimeAssumption DEF Store, TypeOK
    <3>2. /\ pc'[p] = "reget" /\ UNCHANGED <<at, began, time>>
          /\ rows'[at[p]].count = fetched[p] /\ rows'[at[p]].itime = time + offset
          /\ began[p] <= time /\ time <= began[p] + Slow /\ fetched[p] # -1
      BY <1>1, <1>2, <2>3, <3>1 DEF Store, TypeOK, clock, RequestInv
    <3>3. Has(at[p])'
      BY <3>2 DEF Has, NoRow
    <3>4. began[p] <= rows'[at[p]].itime
      BY <1>2, <3>1, <3>2
    <3> QED BY <3>1, <3>2, <3>3, <3>4 DEF RequestInv
  <2>4. CASE pc'[p] \in {"get", "fetch"} /\ (ListNames(p) \/ Get(p))
    BY <1>1, <2>4 DEF ListNames, Get, GoTo, Answer, End, RequestInv, TypeOK
  <2>5. ListNames(p) \/ Get(p) => pc'[p] \in {"idle", "get", "fetch"}
    BY <1>1 DEF ListNames, Get, GoTo, Answer, End, TypeOK
  <2>6. Reget(p) \/ Fail(p) => pc'[p] = "idle"
    BY <1>1 DEF Reget, Fail, Answer, EndInError, End, TypeOK
  <2> QED BY <1>7, <2>1, <2>2, <2>3, <2>4, <2>5, <2>6 DEF Step
<1>8. ASSUME NEW q \in Users, List(q) \/ (\E u \in Urls : Lookup(q, u)) PROVE RequestInv(p)'
  <2>1. CASE q = p
    <3>1. /\ pc'[p] \in {"names", "get"} /\ at'[p] \in Urls
          /\ began'[p] = time /\ time' = time
      BY <1>1, <1>8, <2>1 DEF List, Lookup, Begin, TypeOK
    <3> QED BY <1>2, <3>1, TimeAssumption DEF RequestInv
  <2>2. CASE q # p
    <3>1. UNCHANGED <<pc[p], at[p], began[p], fetched, overlapped, visits, rows, time>>
      BY <1>1, <1>8, <2>2 DEF List, Lookup, Begin, TypeOK
    <3> QED BY <1>1, <3>1 DEF RequestInv, Covers, Has
  <2> QED BY <2>1, <2>2
<1> QED
  BY <1>3, <1>4, <1>5, <1>6, <1>7, <1>8 DEF Next, vars, SetClock, Evict

\* A step that lowers a row marks its origin, and the one that stores knew it.
LEMMA RowsKept ==
    ASSUME IInv, [Next]_vars, NEW u \in Urls
    PROVE /\ u \notin lost' => rows[u].count <= rows'[u].count
          /\ lost \subseteq lost'
          /\ rows'[u].count < rows[u].count =>
                \E p \in Users : pc[p] = "store" /\ at[p] = u /\ p \in overlapped
<1>1. /\ TypeOK /\ rows[u].count \in Int
      /\ \A p \in Users : fetched[p] \in Nat /\ RequestInv(p)
  BY DEF IInv, TypeOK
<1>2. ASSUME NEW p \in Users, Store(p)
      PROVE /\ lost \subseteq lost'
            /\ rows'[u].count < rows[u].count =>
                  u \in lost' /\ pc[p] = "store" /\ at[p] = u /\ p \in overlapped
  <2>1. CASE at[p] # u
    BY <1>1, <1>2, <2>1 DEF Store, TypeOK
  <2>2. CASE at[p] = u
    <3>1. rows'[u].count = fetched[p] /\ pc[p] = "store"
      BY <1>1, <1>2, <2>2 DEF Store, TypeOK
    <3>2. rows'[u].count < rows[u].count => p \in overlapped
      BY <1>1, <2>2, <3>1 DEF RequestInv
    <3> QED BY <1>2, <2>2, <3>1, <3>2 DEF Store
  <2> QED BY <2>1, <2>2
<1>3. CASE \E p \in Users : Store(p)
  <2>1. rows'[u].count \in Int
    BY TypeInv DEF TypeOK
  <2> QED BY <1>1, <1>2, <1>3, <2>1
<1>4. ASSUME ~(\E p \in Users : Store(p)) PROVE UNCHANGED <<rows, lost>>
  BY <1>4
  DEF Next, vars, Archive, Tick, SetClock, Lookup, List, Evict, Step, ListNames,
      Get, Fetch, Reget, Fail
<1> QED BY <1>1, <1>3, <1>4

\* A listing is what the row has, and stays the user's until it looks elsewhere.
LEMMA SeenKept ==
    ASSUME IInv, [Next]_vars, NEW p \in Users
    PROVE \/ at'[p] = at[p] /\ saw'[p] = saw[p]
          \/ at'[p] = at[p] /\ at[p] \in Urls /\ rows' = rows /\ saw'[p] = rows[at[p]].count
          \/ at'[p] \in Urls /\ saw'[p] = -1
          \/ at'[p] = NoUrl /\ saw'[p] = saw[p]
<1> USE DEF world, directory
<1>1. TypeOK /\ \A q \in Users : pc[q] # "idle" => at[q] \in Urls
  BY AtOrigin DEF IInv
<1>2. ASSUME NEW q \in Users, Answer(q), at[q] \in Urls, rows' = rows
      PROVE at' = at /\ (saw'[p] = saw[p] \/ (p = q /\ saw'[p] = rows[at[p]].count))
  <2>1. saw \in [Users -> Nat \cup {-1}]
    BY <1>1 DEF TypeOK
  <2>2. CASE saw' = saw
    BY <1>2, <2>2 DEF Answer
  <2>3. CASE saw' = [saw EXCEPT ![q] = rows[at[q]].count]
    <3>1. p = q => saw'[p] = rows[at[p]].count
      BY <2>1, <2>3
    <3>2. p # q => saw'[p] = saw[p]
      BY <2>1, <2>3
    <3> QED BY <1>2, <3>1, <3>2 DEF Answer
  <2> QED BY <1>2, <2>2, <2>3 DEF Answer
<1>3. ASSUME NEW q \in Users, EndInError(q)
      PROVE saw' = saw /\ (at'[p] = at[p] \/ at'[p] = NoUrl)
  BY <1>1, <1>3 DEF EndInError, TypeOK
<1>4. ASSUME NEW q \in Users, NEW u \in Urls, Lookup(q, u)
      PROVE \/ at'[p] = at[p] /\ saw'[p] = saw[p]
            \/ at'[p] \in Urls /\ saw'[p] = -1
  BY <1>1, <1>4 DEF Lookup, TypeOK
<1>5. ASSUME NEW q \in Users, Get(q) \/ Reget(q)
      PROVE (Answer(q) /\ rows' = rows) \/ EndInError(q) \/ UNCHANGED directory
  BY <1>5 DEF Get, Reget, GoTo
<1>6. ASSUME NEW q \in Users, Get(q) \/ Reget(q) PROVE at[q] \in Urls
  BY <1>1, <1>6 DEF Get, Reget
<1>7. ASSUME NEW q \in Users, ListNames(q) \/ Fetch(q) \/ Store(q) \/ Fail(q)
      PROVE EndInError(q) \/ UNCHANGED directory
  BY <1>7 DEF ListNames, Fetch, Store, Fail, GoTo
<1> QED
  BY <1>1, <1>2, <1>3, <1>4, <1>5, <1>6, <1>7
  DEF Next, vars, Archive, Tick, SetClock, List, Evict, Step

LEMMA SeensInv ==
    ASSUME IInv, [Next]_vars, NEW p \in Users PROVE SeenInv(p)'
<1>1. SeenInv(p) /\ saw[p] \in Int /\ UrlAssumption
  BY UrlAssumption DEF IInv, TypeOK
<1>2. \A u \in Urls : rows[u].count \in Int /\ rows'[u].count \in Int
                       /\ rows'[u].count >= -1
  BY TypeInv, SMTT(30) DEF IInv, TypeOK
<1>3. \A u \in Urls : lost \subseteq lost' /\ (u \notin lost' => rows[u].count <= rows'[u].count)
  BY RowsKept
<1> QED BY <1>1, <1>2, <1>3, SeenKept DEF SeenInv, UrlAssumption

-----------------------------------------------------------------------------
(* The theorems.                                                           *)

\* What rows, requests and users have of the archived visits, in every
\* reachable state.
THEOREM OriginsInvariance == Spec => []IInv
<1>1. IInv /\ [Next]_vars => IInv'
  BY TypeInv, RowsInv, RequestsInv, SeensInv DEF IInv
<1> QED BY InitInv, <1>1, PTL DEF Spec

\* The types.
THEOREM OriginsTypes == Spec => []TypeOK
<1>1. IInv => TypeOK
  BY DEF IInv
<1> QED BY OriginsInvariance, <1>1, PTL

\* MetadataCache.get_visits answers with every visit older than a day and the
\* longest request, whatever requests overlap and however the clock changes.
THEOREM VisitsAreFresh == Spec => []FreshVisits
<1>1. ASSUME IInv, NEW u \in Urls, Fresh(u)
      PROVE Covers(u, rows[u].count, time - (Day + Slow + Shift))
  <2>1. /\ Covers(u, rows[u].count, rows[u].itime - (Slow + Shift + 1))
        /\ time \in Nat /\ offset \in Nat /\ rows[u].itime \in Nat
        /\ visits[u] \in Seq(Nat)
    <3>1. RowInv(u) /\ Has(u) /\ TypeOK
      BY <1>1 DEF IInv, Fresh
    <3> QED BY <3>1, TimeAssumption DEF RowInv, TypeOK
  <2>2. time + offset - rows[u].itime < Day
    BY <1>1, <2>1, TimeAssumption DEF Fresh, clock
  <2>3. ASSUME NEW n \in Nat, n <= time - (Day + Slow + Shift)
        PROVE n <= rows[u].itime - (Slow + Shift + 1)
    BY <2>1, <2>2, <2>3, TimeAssumption
  <2> QED BY <2>1, <2>3 DEF Covers
<1>2. IInv => FreshVisits
  BY <1>1 DEF FreshVisits
<1> QED BY OriginsInvariance, <1>2, PTL

\* get_visits reads again what it has just stored, so it returns no None: this is
\* where a request has to be shorter than a day.
THEOREM NothingIsNone == Spec => []RegetIsFresh
<1>1. ASSUME IInv, NEW p \in Users, pc[p] = "reget" PROVE Fresh(at[p])
  <2>1. /\ Has(at[p]) /\ began[p] <= rows[at[p]].itime /\ time <= began[p] + Slow
        /\ at[p] \in Urls
    BY <1>1 DEF IInv, RequestInv
  <2>2. /\ time \in Nat /\ offset \in Nat /\ offset <= Shift /\ began[p] \in Nat
        /\ rows[at[p]].itime \in Nat
    BY <1>1, <2>1, TimeAssumption DEF IInv, TypeOK
  <2> QED BY <2>1, <2>2, TimeAssumption, SlowAssumption DEF Fresh, clock
<1>2. IInv => RegetIsFresh
  BY <1>1 DEF RegetIsFresh
<1> QED BY OriginsInvariance, <1>2, PTL

\* "insert or replace" loses visits only when two answers are stored in the
\* other order.
THEOREM OnlyOverlapLoses == Spec => LostOnlyByOverlap
<1>1. IInv /\ [Next]_vars =>
        [\A u \in Urls : rows'[u].count < rows[u].count =>
            \E p \in Users : pc[p] = "store" /\ at[p] = u /\ p \in overlapped]_vars
  BY RowsKept
<1> QED BY OriginsInvariance, <1>1, PTL DEF Spec, LostOnlyByOverlap

\* A user sees visits disappear from its directory only then.
THEOREM UsersLoseNothing == Spec => VisitsOnlyGrow
<1>1. ASSUME IInv, [Next]_vars, NEW p \in Users, saw'[p] # -1, saw'[p] < saw[p]
      PROVE at[p] \in lost
  <2>1. saw[p] \in Int /\ SeenInv(p) /\ \A u \in Urls : rows[u].count \in Int
    BY <1>1 DEF IInv, TypeOK
  <2> QED BY <1>1, <2>1, SeenKept DEF SeenInv
<1>2. IInv /\ [Next]_vars =>
        [\A p \in Users : saw'[p] # -1 /\ saw'[p] < saw[p] => at[p] \in lost]_vars
  BY <1>1
<1> QED BY OriginsInvariance, <1>2, PTL DEF Spec, VisitsOnlyGrow
=============================================================================
