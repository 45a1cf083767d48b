--------------------------- MODULE FuseTreeProofs ---------------------------
(***************************************************************************)
(* Proofs about FuseTree, for any tree, any number of clients and inodes,  *)
(* and whatever the cache of listings evicts.                              *)
(*                                                                         *)
(* The inode table only grows, so what holds of entries goes on to hold    *)
(* for every listing and every client a step does not touch (Grown); each  *)
(* action then answers for its own client, with Serve and Find taken once  *)
(* for the readdirs and lookups that find their listing and for those that *)
(* have just computed it.  What the cache holds, and the types, follow     *)
(* from that (ListingsChange, RequestSteps); the streams over cache/ have  *)
(* an invariant of their own.  Last, each step is one of ReadOnlyTree's or *)
(* does not show there: what a step does to its client, in the terms of    *)
(* that tree, is Comes.                                                    *)
(***************************************************************************)

EXTENDS DirEntryCacheProofs

-----------------------------------------------------------------------------
(* Listings.                                                               *)

\* What FiniteSetsExt's Min returns, for any set of naturals.
LEMMA LeastInSet ==
  ASSUME NEW T, T \subseteq Nat, T # {}
  PROVE  Min(T) \in T /\ \A m \in T : Min(T) <= m
  BY Smallest DEF Min

\* A directory lists children of its own; an archived one, the same each time.
LEMMA ListingType ==
  ASSUME NEW d \in Dirs
  PROVE  /\ Listing(d) \in Seq(ToSet(Children[d]))
         /\ Listing(d) \in Seq(Nodes)
         /\ d \notin Live => Listing(d) = Fixed(d)
  <1>1. Children[d] \in Seq(Nodes)
    BY TreeAssumption
  <1>2. Children[d] \in Seq(ToSet(Children[d])) /\ ToSet(Children[d]) \subseteq Nodes
    BY <1>1 DEF ToSet
  <1>3. Selected(Children[d], rows) \in Seq(ToSet(Children[d]))
    BY <1>2, SelectedType
  <1>4. Listing(d) \in Seq(ToSet(Children[d]))
    <2>1. <<>> \in Seq(ToSet(Children[d]))
      OBVIOUS
    <2>2. Listing(d) \in {<<>>, Children[d], Selected(Children[d], rows)}
      BY DEF Listing
    <2> QED
      BY <1>2, <1>3, <2>1, <2>2
  <1>5. Listing(d) \in Seq(Nodes)
    BY <1>2, <1>4, SeqMonotonic
  <1> QED
    BY <1>4, <1>5 DEF Listing, Fixed

\* The computation goes on to a symlink or submodule, or to the end.
LEMMA NextLinkBounds ==
  ASSUME NEW listing \in Seq(Nodes), NEW a \in 0 .. Len(listing)
  PROVE  /\ NextLink(listing, a) \in a + 1 .. Len(listing) + 1
         /\ NextLink(listing, a) <= Len(listing) => listing[NextLink(listing, a)] \in Links
  <1> DEFINE Ends == {j \in a + 1 .. Len(listing) : listing[j] \in Links}
                        \cup {Len(listing) + 1}
  <1>1. Ends \subseteq Nat /\ Ends # {}
    OBVIOUS
  <1>2. Ends \subseteq a + 1 .. Len(listing) + 1
    OBVIOUS
  <1>3. NextLink(listing, a) = Min(Ends)
    BY DEF NextLink
  <1>4. Min(Ends) \in Ends
    <2> HIDE DEF Ends
    <2> QED
      BY <1>1, LeastInSet
  <1> QED
    BY <1>2, <1>3, <1>4

\* The rows of a table are listed without an await.
LEMMA LiveHasNoLink ==
  ASSUME NEW d \in Live, d \in Dirs
  PROVE  NextLink(Listing(d), 0) = Len(Listing(d)) + 1
  <1>1. Listing(d) \in Seq(ToSet(Children[d])) /\ Listing(d) \in Seq(Nodes)
    BY ListingType
  <1>2. Len(Listing(d)) \in Nat /\ 0 \in 0 .. Len(Listing(d))
    BY <1>1
  <1>3. \A j \in 1 .. Len(Listing(d)) : Listing(d)[j] \notin Links
    BY <1>1, TreeAssumption
  <1>4. NextLink(Listing(d), 0) \in 1 .. Len(Listing(d)) + 1
    BY <1>1, <1>2, NextLinkBounds
  <1>5. ~(NextLink(Listing(d), 0) <= Len(Listing(d)))
    BY <1>1, <1>2, <1>3, <1>4, NextLinkBounds
  <1> QED
    BY <1>2, <1>4, <1>5

-----------------------------------------------------------------------------
(* What a longer inode table keeps.                                        *)

Grown ==
    /\ nodeOf' \in Seq(Nodes)
    /\ Len(nodeOf) <= Len(nodeOf')
    /\ \A i \in Handles : nodeOf'[i] = nodeOf[i]
    /\ known \subseteq known' /\ known' \subseteq 1 .. Len(nodeOf')

\* Entries name what they named.
LEMMA PartialKept ==
  ASSUME TableInv, Grown, NEW entries, NEW d, Partial(nodeOf, entries, d)
  PROVE  Partial(nodeOf', entries, d)
  <1>1. Len(nodeOf) \in Nat /\ Len(nodeOf') \in Nat
    BY DEF TableInv, Grown
  <1>2. entries \in Seq(1 .. Len(nodeOf'))
    BY <1>1, SeqMonotonic DEF Partial, Grown
  <1>3. \A k \in 1 .. Len(entries) : entries[k] \in Handles
    BY DEF Partial, Handles
  <1> QED
    BY <1>2, <1>3 DEF Partial, Grown

\* The inode table stays one.
LEMMA TableKept ==
  ASSUME TableInv, Grown
  PROVE  TableInv'
  BY DEF TableInv, Grown, Handles

\* So do the listings kept, and one computed meanwhile may join them.
LEMMA ListingsKept ==
  ASSUME TableInv, ListingsInv, Grown, NEW i, NEW entries,
         \/ held' = held
         \/ /\ i \in Handles /\ nodeOf[i] \in Dirs
            /\ Whole(nodeOf', entries, nodeOf[i])
            /\ \A j \in DOMAIN held' :
                   \/ j = i /\ held'[j] = entries
                   \/ j \in DOMAIN held /\ held'[j] = held[j]
  PROVE  ListingsInv'
  <1> SUFFICES ASSUME NEW j \in DOMAIN held'
               PROVE  /\ j \in Handles' /\ nodeOf'[j] \in Dirs
                      /\ Whole(nodeOf', held'[j], nodeOf'[j])
    BY DEF ListingsInv
  <1>1. \A n \in Handles : n \in Handles' /\ nodeOf'[n] = nodeOf[n]
    BY DEF TableInv, Grown, Handles
  <1>2. CASE j \in DOMAIN held /\ held'[j] = held[j]
    BY <1>1, <1>2, PartialKept DEF ListingsInv, Whole
  <1>3. CASE j = i /\ held'[j] = entries /\ i \in Handles /\ nodeOf[i] \in Dirs
             /\ Whole(nodeOf', entries, nodeOf[i])
    BY <1>1, <1>3
  <1> QED
    BY <1>2, <1>3

Stays(u) ==
    /\ pc'[u] = pc[u] /\ dir'[u] = dir[u] /\ want'[u] = want[u]
    /\ offset'[u] = offset[u] /\ made'[u] = made[u] /\ seen'[u] = seen[u]
    /\ got'[u] = got[u]

\* A client that does nothing has nothing changed under it.
LEMMA ClientKept ==
  ASSUME IInv, Grown, NEW u \in Clients, Stays(u)
  PROVE  RequestInv(u)' /\ StreamInv(u)' /\ AnswerInv(u)'
  <1>1. /\ TableInv /\ RequestInv(u) /\ StreamInv(u) /\ AnswerInv(u)
    BY DEF IInv
  <1>2. dir[u] \in Handles /\ nodeOf'[dir[u]] = nodeOf[dir[u]] /\ dir[u] \in known'
    BY <1>1 DEF TableInv, RequestInv, Grown
  <1>3. RequestInv(u)'
    BY <1>1, <1>2, PartialKept DEF RequestInv, Stays
  <1>4. StreamInv(u)'
    BY <1>1, <1>2 DEF StreamInv, Stays
  <1>5. AnswerInv(u)'
    <2>1. got[u] \in Handles => got[u] \in Handles' /\ nodeOf'[got[u]] = nodeOf[got[u]]
      BY <1>1 DEF TableInv, Grown, Handles
    <2>2. got[u] = 0 => got[u] \notin Handles
      BY DEF Handles
    <2> QED
      BY <1>1, <1>2, <2>1, <2>2 DEF AnswerInv, Stays
  <1> QED
    BY <1>3, <1>4, <1>5

-----------------------------------------------------------------------------
(* A request that has its listing.                                         *)

\* The table as a computation leaves it, before the kernel is given anything.
Table ==
    /\ nodeOf' \in Seq(Nodes)
    /\ known \subseteq 1 .. Len(nodeOf')

\* SubSeq, within the bounds of its sequence.
LEMMA WithinBounds ==
  ASSUME NEW S, NEW s \in Seq(S), NEW o \in Nat, NEW n \in Nat, n <= Len(s)
  PROVE  /\ SubSeq(s, o + 1, n) \in Seq(S)
         /\ Len(SubSeq(s, o + 1, n)) = IF o < n THEN n - o ELSE 0
         /\ \A k \in 1 .. n - o : SubSeq(s, o + 1, n)[k] = s[o + k]
  OBVIOUS

\* Min, of two.
LEMMA LesserOf ==
  ASSUME NEW a \in Nat, NEW b \in Nat
  PROVE  Min({a, b}) = IF a <= b THEN a ELSE b
  <1> DEFINE Ends == {a, b}
  <1>1. Ends \subseteq Nat /\ Ends # {}
    OBVIOUS
  <1>2. Min(Ends) \in Ends /\ \A m \in Ends : Min(Ends) <= m
    <2> HIDE DEF Ends
    <2> QED
      BY <1>1, LeastInSet
  <1> QED
    BY <1>2

\* A function on 1 .. m is a sequence.
LEMMA FunctionIsSeq ==
  ASSUME NEW S, NEW m \in Nat, NEW f \in [1 .. m -> S]
  PROVE  f \in Seq(S) /\ Len(f) = m
  OBVIOUS

\* Where a block ends: within the listing, and past its start unless that is its end.
LEMMA BlockEnd ==
  ASSUME NEW N \in Nat, NEW o \in Nat, NEW n \in Nat, n > 0
  PROVE  /\ Min({N, o + n}) \in Nat /\ Min({N, o + n}) <= N
         /\ o >= Min({N, o + n}) => o >= N
  <1>1. PICK b \in Nat : b = o + n
    OBVIOUS
  <1>2. Min({N, b}) = IF N <= b THEN N ELSE b
    BY LesserOf
  <1> QED
    BY <1>1, <1>2

\* A stream over d with the next block of a whole listing is still one over d.
LEMMA NextBlock ==
  ASSUME NEW table \in Seq(Nodes), NEW listing, NEW d, Whole(table, listing, d),
         NEW names \in Seq(Nodes), Returned(names, d),
         NEW o \in Nat, o = Len(names), NEW new \in Seq(Nodes),
         \A k \in 1 .. Len(new) : /\ o + k \in 1 .. Len(listing)
                                  /\ new[k] = table[listing[o + k]]
  PROVE  /\ names \o new \in Seq(Nodes) /\ Len(names \o new) = o + Len(new)
         /\ Returned(names \o new, d)
  <1>1. Len(listing) \in Nat
    BY DEF Whole, Partial
  <1>2. PICK m \in Nat : m = Len(new)
    OBVIOUS
  <1>7. /\ names \o new \in Seq(Nodes) /\ Len(names \o new) = o + m
        /\ \A k \in 1 .. o + m :
              (names \o new)[k] = IF k <= o THEN names[k] ELSE new[k - o]
    <2>1. names \o new \in Seq(Nodes)
      BY <1>2
    <2>2. Len(names \o new) = o + m
      BY <1>2
    <2>3. ASSUME NEW k \in 1 .. o + m
          PROVE  (names \o new)[k] = IF k <= o THEN names[k] ELSE new[k - o]
      BY <1>2
    <2> QED
      BY <2>1, <2>2, <2>3
  <1>8. Returned(names \o new, d)
    <2> SUFFICES ASSUME d \notin Live PROVE Returned(names \o new, d)
      BY DEF Returned
    <2>1. /\ Len(listing) = Len(Fixed(d)) /\ o <= Len(Fixed(d))
          /\ \A k \in 1 .. o : names[k] = Fixed(d)[k]
          /\ \A k \in 1 .. Len(listing) : table[listing[k]] = Fixed(d)[k]
      BY DEF Returned, Whole, Partial
    <2>2. ASSUME NEW k \in 1 .. o + m
          PROVE  (names \o new)[k] = Fixed(d)[k]
      <3>1. CASE k <= o
        <4>1. k \in 1 .. o
          BY <3>1
        <4> QED
          BY <1>7, <2>1, <3>1, <4>1
      <3>2. CASE ~(k <= o)
        <4>5. k - o \in 1 .. m /\ o + (k - o) = k
          BY <3>2
        <4>1. PICK j \in 1 .. m : j = k - o /\ o + j = k
          BY <4>5
        <4>2. k \in 1 .. Len(listing) /\ new[j] = table[listing[k]]
          BY <1>2, <4>1
        <4>3. (names \o new)[k] = new[j]
          BY <1>7, <3>2, <4>1
        <4> QED
          BY <2>1, <4>2, <4>3
      <3> QED
        BY <3>1, <3>2
    <2>3. o + m <= Len(Fixed(d))
      <3>1. CASE m = 0
        BY <2>1, <3>1
      <3>2. CASE m # 0
        <4>1. m \in 1 .. m
          BY <3>2
        <4>2. o + m \in 1 .. Len(listing)
          BY <1>2, <4>1
        <4> QED
          BY <1>1, <2>1, <4>2
      <3> QED
        BY <3>1, <3>2
    <2> QED
      BY <1>7, <2>2, <2>3 DEF Returned
  <1> QED
    BY <1>2, <1>7, <1>8

\* What a stream over a listing is sent next, and the names of that.
Sent(listing, o, last) == SubSeq(listing, o + 1, last)

NamesOf(table, entries) == [k \in 1 .. Len(entries) |-> table[entries[k]]]

\* What Serve adds to a stream, over a listing of which the stream has a part.
LEMMA StreamBlock ==
  ASSUME NEW table \in Seq(Nodes), NEW listing, NEW d, Whole(table, listing, d),
         NEW names \in Seq(Nodes), Returned(names, d),
         NEW last \in Nat, last <= Len(listing)
  PROVE  \E sent, new :
             /\ sent = Sent(listing, Len(names), last)
             /\ new = NamesOf(table, sent)
             /\ sent \in Seq(1 .. Len(table)) /\ names \o new \in Seq(Nodes)
             /\ Len(names \o new) = Len(names) + Len(sent)
             /\ Returned(names \o new, d)
             /\ Len(names) >= last => Len(sent) = 0
  <1> DEFINE H == 1 .. Len(table)
             sent == Sent(listing, Len(names), last)
             new == NamesOf(table, sent)
  <1>1. listing \in Seq(H) /\ Len(listing) \in Nat
    BY DEF Whole, Partial
  <1>2. PICK o \in Nat : o = Len(names)
    OBVIOUS
  <1>3. sent = SubSeq(listing, o + 1, last)
    BY <1>2 DEF Sent
  <1> HIDE DEF H, sent, new
  <1>4. sent \in Seq(H)
    BY <1>1, <1>3, WithinBounds
  <1>5. Len(sent) = IF o < last THEN last - o ELSE 0
    BY <1>1, <1>3, WithinBounds
  <1>6. ASSUME NEW k \in 1 .. Len(sent)
        PROVE  o + k \in 1 .. Len(listing) /\ sent[k] = listing[o + k]
    <2>1. k \in 1 .. last - o /\ o + k <= last /\ o + k >= 1
      BY <1>5
    <2>2. sent[k] = listing[o + k]
      BY <1>1, <1>3, <2>1, WithinBounds
    <2>3. o + k \in 1 .. Len(listing)
      BY <1>1, <2>1
    <2> QED
      BY <2>2, <2>3
  <1>7. PICK m \in Nat : m = Len(sent)
    <2>1. Len(sent) \in Nat
      BY <1>5
    <2> QED
      BY <2>1
  <1>8. new \in [1 .. m -> Nodes] /\ \A k \in 1 .. m : new[k] = table[sent[k]]
    <2>1. \A k \in 1 .. m : table[sent[k]] \in Nodes
      BY <1>4, <1>7 DEF H
    <2> QED
      BY <1>7, <2>1 DEF new, NamesOf
  <1>9. new \in Seq(Nodes) /\ Len(new) = m
    BY <1>8, FunctionIsSeq
  <1>10. \A k \in 1 .. Len(new) : /\ o + k \in 1 .. Len(listing)
                                  /\ new[k] = table[listing[o + k]]
    BY <1>6, <1>7, <1>8, <1>9
  <1>11. /\ names \o new \in Seq(Nodes) /\ Len(names \o new) = o + Len(new)
         /\ Returned(names \o new, d)
    <2>1. PICK f \in Seq(Nodes) : f = new
      BY <1>9
    <2>2. \A k \in 1 .. Len(f) : /\ o + k \in 1 .. Len(listing)
                                 /\ f[k] = table[listing[o + k]]
      BY <1>10, <2>1
    <2>3. o = Len(names) /\ o \in Nat
      BY <1>2
    <2>4. Returned(names \o f, d)
      BY ONLY table \in Seq(Nodes), Whole(table, listing, d), names \in Seq(Nodes),
         Returned(names, d), f \in Seq(Nodes), <2>2, <2>3, NextBlock
    <2>5. names \o f \in Seq(Nodes) /\ Len(names \o f) = o + Len(f)
      BY <2>2, <2>3, NextBlock
    <2> QED
      BY <2>1, <2>4, <2>5
  <1>12. Len(names) >= last => Len(sent) = 0
    BY <1>2, <1>5
  <1>13. Len(names \o new) = Len(names) + Len(sent)
    BY <1>2, <1>7, <1>9, <1>11
  <1> QED
    BY <1>4, <1>11, <1>12, <1>13 DEF H, new, sent

\* A readdir that has its listing.
LEMMA ServeKeeps ==
  ASSUME Shapes, Table, NEW c \in Clients, NEW listing, NEW d \in Dirs,
         dir'[c] \in known, nodeOf'[dir'[c]] = d, want'[c] = NoNode,
         made'[c] = <<>>, Whole(nodeOf', listing, d),
         seen[c] \in Seq(Nodes), offset[c] = Len(seen[c]), Returned(seen[c], d),
         got[c] \in 1 .. Len(nodeOf') \cup {0},
         Serve(c, listing)
  PROVE  /\ known \subseteq known' /\ known' \subseteq 1 .. Len(nodeOf')
         /\ RequestInv(c)' /\ StreamInv(c)' /\ AnswerInv(c)'
  <1>1. Len(listing) \in Nat /\ Len(seen[c]) \in Nat
    BY DEF Whole, Partial
  <1>2. PICK n \in 1 .. Block :
          LET last == Min({Len(listing), offset[c] + n})
              sent == SubSeq(listing, offset[c] + 1, last)
          IN  /\ seen' = [seen EXCEPT ![c] =
                             @ \o [k \in 1 .. Len(sent) |-> nodeOf'[sent[k]]]]
              /\ known' = known \cup ToSet(sent)
              /\ offset' = [offset EXCEPT ![c] = @ + Len(sent)]
    BY DEF Serve
  <1>3. n \in Nat /\ n > 0
    BY BoundAssumption
  <1>4. PICK last \in Nat :
          /\ last = Min({Len(listing), Len(seen[c]) + n}) /\ last <= Len(listing)
          /\ Len(seen[c]) >= last => Len(seen[c]) >= Len(listing)
    <2>1. PICK o \in Nat : o = Len(seen[c])
      BY <1>1
    <2>2. /\ Min({Len(listing), o + n}) \in Nat /\ Min({Len(listing), o + n}) <= Len(listing)
          /\ o >= Min({Len(listing), o + n}) => o >= Len(listing)
      BY <1>1, <1>3, BlockEnd
    <2> QED
      BY <2>1, <2>2
  <1>5. PICK sent, new :
          /\ sent = Sent(listing, Len(seen[c]), last) /\ new = NamesOf(nodeOf', sent)
          /\ sent \in Seq(1 .. Len(nodeOf')) /\ seen[c] \o new \in Seq(Nodes)
          /\ Len(seen[c] \o new) = Len(seen[c]) + Len(sent)
          /\ Returned(seen[c] \o new, d)
          /\ Len(seen[c]) >= last => Len(sent) = 0
    <2>1. PICK table \in Seq(Nodes) : table = nodeOf'
      BY DEF Table
    <2>2. PICK names \in Seq(Nodes) : names = seen[c]
      OBVIOUS
    <2>3. Whole(table, listing, d) /\ Returned(names, d) /\ last <= Len(listing)
      BY <1>4, <2>1, <2>2
    <2>4. \E sent, new :
             /\ sent = Sent(listing, Len(names), last) /\ new = NamesOf(table, sent)
             /\ sent \in Seq(1 .. Len(table)) /\ names \o new \in Seq(Nodes)
             /\ Len(names \o new) = Len(names) + Len(sent)
             /\ Returned(names \o new, d)
             /\ Len(names) >= last => Len(sent) = 0
      BY ONLY table \in Seq(Nodes), names \in Seq(Nodes), last \in Nat, <2>3,
         StreamBlock
    <2> QED
      BY <2>1, <2>2, <2>4
  <1>8. /\ seen'[c] = seen[c] \o new
        /\ known' = known \cup ToSet(sent)
        /\ offset'[c] = Len(seen[c]) + Len(sent)
    <2>1. /\ sent = SubSeq(listing, Len(seen[c]) + 1, last)
          /\ new = [k \in 1 .. Len(sent) |-> nodeOf'[sent[k]]]
      BY <1>5 DEF Sent, NamesOf
    <2> QED
      BY <1>2, <1>4, <2>1 DEF Shapes
  <1>9. /\ sent \in Seq(1 .. Len(nodeOf')) /\ seen'[c] \in Seq(Nodes)
        /\ Len(seen'[c]) = Len(seen[c]) + Len(sent)
        /\ Returned(seen'[c], d)
        /\ Len(seen[c]) >= last => Len(sent) = 0
    BY <1>5, <1>8
  <1>10. pc'[c] = (IF Len(seen[c]) >= Len(listing) THEN "end" ELSE "open") /\ got' = got
    BY DEF Serve, Shapes
  <1>11. pc'[c] = "end" /\ d \notin Live => Len(seen'[c]) = Len(Fixed(d))
    <2>1. d \notin Live => Len(listing) = Len(Fixed(d)) /\ Len(seen[c]) <= Len(Fixed(d))
      BY DEF Returned, Whole, Partial
    <2> QED
      BY <1>1, <1>4, <1>9, <1>10, <2>1
  <1>12. ToSet(sent) \subseteq 1 .. Len(nodeOf')
    BY <1>9 DEF ToSet
  <1>13. RequestInv(c)'
    BY <1>8, <1>10 DEF RequestInv
  <1>14. StreamInv(c)'
    BY <1>8, <1>9, <1>10, <1>11 DEF StreamInv
  <1>15. AnswerInv(c)'
    BY <1>10 DEF AnswerInv, Handles
  <1> QED
    BY <1>8, <1>12, <1>13, <1>14, <1>15 DEF Table

\* A lookup that has its listing.
LEMMA FindKeeps ==
  ASSUME Shapes, Table, NEW c \in Clients, NEW listing, NEW d \in Dirs \ OnTheFly,
         dir'[c] \in known, nodeOf'[dir'[c]] = d, NEW name \in Nodes,
         want'[c] = name, made'[c] = <<>>, Whole(nodeOf', listing, d),
         seen[c] \in Seq(Nodes), Find(c, listing, name)
  PROVE  /\ known \subseteq known' /\ known' \subseteq 1 .. Len(nodeOf')
         /\ RequestInv(c)' /\ StreamInv(c)' /\ AnswerInv(c)'
  <1> DEFINE hits == {i \in ToSet(listing) : nodeOf'[i] = name}
  <1>1. listing \in Seq(1 .. Len(nodeOf')) /\ hits \subseteq 1 .. Len(nodeOf')
    BY DEF Whole, Partial, ToSet
  <1>2. /\ got'[c] = (IF hits = {} THEN 0 ELSE Min(hits))
        /\ known' = known \cup hits /\ pc'[c] = "answered" /\ seen' = seen
    BY DEF Find, Shapes
  <1>3. hits # {} => Min(hits) \in hits
    <2>1. hits \subseteq Nat
      BY <1>1
    <2> HIDE DEF hits
    <2> QED
      BY <2>1, LeastInSet
  <1>4. d \notin Live => (hits = {} <=> name \notin ToSet(Children[d]))
    <2> SUFFICES ASSUME d \notin Live
                 PROVE  hits = {} <=> name \notin ToSet(Children[d])
      OBVIOUS
    <2>1. /\ DOMAIN Children[d] = 1 .. Len(Children[d])
          /\ DOMAIN listing = 1 .. Len(Children[d])
          /\ \A k \in 1 .. Len(Children[d]) : nodeOf'[listing[k]] = Children[d][k]
      BY <1>1, TreeAssumption DEF Whole, Partial, Fixed
    <2> QED
      BY <2>1 DEF ToSet
  <1>5. NoNode # name
    BY TreeAssumption
  <1>6. RequestInv(c)' /\ StreamInv(c)'
    BY <1>2, <1>5 DEF RequestInv, StreamInv
  <1>7. AnswerInv(c)'
    <2>1. got'[c] \in 1 .. Len(nodeOf') \cup {0}
      BY <1>1, <1>2, <1>3
    <2>2. got'[c] = 0 => hits = {}
      BY <1>1, <1>2, <1>3
    <2>3. got'[c] # 0 => got'[c] \in hits
      BY <1>2, <1>3
    <2> QED
      BY <1>2, <1>4, <1>5, <2>1, <2>2, <2>3 DEF AnswerInv, Handles
  <1> QED
    BY <1>1, <1>2, <1>6, <1>7 DEF Table

\* Either of them.
LEMMA UseKeeps ==
  ASSUME Shapes, Table, NEW c \in Clients, NEW listing, NEW d \in Dirs,
         dir'[c] \in known, nodeOf'[dir'[c]] = d, NEW name, want'[c] = name,
         name # NoNode => name \in Nodes /\ d \notin OnTheFly,
         name = NoNode => offset[c] = Len(seen[c]) /\ Returned(seen[c], d),
         seen[c] \in Seq(Nodes), got[c] \in 1 .. Len(nodeOf') \cup {0},
         Whole(nodeOf', listing, d), Use(c, listing, name)
  PROVE  /\ known \subseteq known' /\ known' \subseteq 1 .. Len(nodeOf')
         /\ RequestInv(c)' /\ StreamInv(c)' /\ AnswerInv(c)'
  <1>1. made'[c] = <<>>
    BY DEF Use, Shapes
  <1>2. CASE name = NoNode
    BY <1>1, <1>2, ServeKeeps DEF Use
  <1>3. CASE name # NoNode
    BY <1>1, <1>3, FindKeeps DEF Use
  <1> QED
    BY <1>2, <1>3

\* A request that is suspended, before it computes or at a symlink.
LEMMA AwaitKeeps ==
  ASSUME Shapes, Table, NEW c \in Clients, NEW d \in Dirs,
         dir'[c] \in known, nodeOf'[dir'[c]] = d,
         want'[c] \in Nodes \cup {NoNode},
         want'[c] = NoNode => offset[c] = Len(seen[c]) /\ Returned(seen[c], d),
         seen[c] \in Seq(Nodes), got[c] \in 1 .. Len(nodeOf') \cup {0},
         NEW label, NEW children,
         \/ label = "metadata" /\ children = <<>>
         \/ /\ label = "link" /\ d \notin Live /\ Partial(nodeOf', children, d)
            /\ Len(children) < Len(Fixed(d)),
         Await(c, label, children)
  PROVE  /\ known' = known
         /\ RequestInv(c)' /\ StreamInv(c)' /\ AnswerInv(c)'
  <1>1. /\ pc'[c] = label /\ made'[c] = children /\ known' = known
        /\ seen' = seen /\ offset' = offset /\ got' = got
    BY DEF Await, Shapes
  <1>2. RequestInv(c)'
    BY <1>1 DEF RequestInv
  <1>3. StreamInv(c)'
    BY <1>1 DEF StreamInv
  <1>4. AnswerInv(c)'
    BY <1>1 DEF AnswerInv, Handles
  <1> QED
    BY <1>1, <1>2, <1>3, <1>4

Others(c) == \A u \in Clients \ {c} : Stays(u)

\* Whatever a client does with its listing, the variables keep their shape and
\* the other clients their values.
LEMMA UseOthers ==
  ASSUME Shapes, NEW c \in Clients, NEW listing, NEW name, Use(c, listing, name)
  PROVE  /\ DOMAIN pc' = Clients /\ DOMAIN made' = Clients /\ DOMAIN seen' = Clients
         /\ DOMAIN offset' = Clients /\ DOMAIN got' = Clients
         /\ \A u \in Clients \ {c} :
               /\ pc'[u] = pc[u] /\ made'[u] = made[u] /\ seen'[u] = seen[u]
               /\ offset'[u] = offset[u] /\ got'[u] = got[u]
  <1>1. CASE name = NoNode
    BY <1>1 DEF Use, Serve, Shapes
  <1>2. CASE name # NoNode
    BY <1>2 DEF Use, Find, Shapes
  <1> QED
    BY <1>1, <1>2

\* The same, for Await.
LEMMA AwaitOthers ==
  ASSUME Shapes, NEW c \in Clients, NEW label, NEW children, Await(c, label, children)
  PROVE  /\ DOMAIN pc' = Clients /\ DOMAIN made' = Clients /\ DOMAIN seen' = Clients
         /\ DOMAIN offset' = Clients /\ DOMAIN got' = Clients
         /\ \A u \in Clients \ {c} :
               /\ pc'[u] = pc[u] /\ made'[u] = made[u] /\ seen'[u] = seen[u]
               /\ offset'[u] = offset[u] /\ got'[u] = got[u]
  BY DEF Await, Shapes

\* A step of one client, from what it does to that client.
LEMMA StepKeeps ==
  ASSUME IInv, NEW c \in Clients, Grown, Shapes', Others(c), ListingsInv',
         RequestInv(c)', StreamInv(c)', AnswerInv(c)'
  PROVE  IInv' /\ Grown
  <1>1. TableInv'
    BY TableKept DEF IInv
  <1>2. ASSUME NEW u \in Clients
        PROVE  RequestInv(u)' /\ StreamInv(u)' /\ AnswerInv(u)'
    <2>1. CASE u = c
      BY <2>1
    <2>2. CASE u # c
      BY <2>2, ClientKept DEF Others
    <2> QED
      BY <2>1, <2>2
  <1> QED
    BY <1>1, <1>2 DEF IInv

-----------------------------------------------------------------------------
(* The actions.                                                            *)

\* A request that looks for a listing in the cache.
LEMMA GetEntriesKeeps ==
  ASSUME IInv, NEW c \in Clients, nodeOf' = nodeOf, held' = held,
         NEW i \in known, NEW name, dir'[c] = i, want'[c] = name, nodeOf[i] \in Dirs,
         name # NoNode => name \in Nodes /\ nodeOf[i] \notin OnTheFly,
         name = NoNode => offset[c] = Len(seen[c]) /\ Returned(seen[c], nodeOf[i]),
         DOMAIN dir' = Clients, DOMAIN want' = Clients,
         \A u \in Clients \ {c} : dir'[u] = dir[u] /\ want'[u] = want[u],
         GetEntries(c, i, name)
  PROVE  IInv' /\ Grown
  <1>1. Shapes /\ TableInv /\ ListingsInv /\ Table
    BY DEF IInv, Table, TableInv, Handles
  <1>2. seen[c] \in Seq(Nodes) /\ got[c] \in 1 .. Len(nodeOf') \cup {0}
    BY DEF IInv, StreamInv, AnswerInv, Handles
  <1>3. CASE CacheGet(i) # <<>>
    <2>1. Use(c, CacheGet(i), name)
      BY <1>3 DEF GetEntries
    <2>2. Whole(nodeOf', CacheGet(i), nodeOf[i])
      BY <1>1, <1>3 DEF CacheGet, ListingsInv
    <2>3. /\ known \subseteq known' /\ known' \subseteq 1 .. Len(nodeOf')
          /\ RequestInv(c)' /\ StreamInv(c)' /\ AnswerInv(c)'
      BY <1>1, <1>2, <2>1, <2>2, UseKeeps
    <2>4. Grown
      BY <1>1, <2>3 DEF Grown, TableInv
    <2>5. Shapes' /\ Others(c)
      BY <1>1, <2>1, UseOthers DEF Shapes, Others, Stays
    <2>6. ListingsInv'
      BY <1>1, <2>4, ListingsKept
    <2> QED
      BY <2>3, <2>4, <2>5, <2>6, StepKeeps
  <1>4. CASE CacheGet(i) = <<>>
    <2>1. Await(c, "metadata", <<>>)
      BY <1>4 DEF GetEntries
    <2>2. known' = known /\ RequestInv(c)' /\ StreamInv(c)' /\ AnswerInv(c)'
      BY <1>1, <1>2, <2>1, AwaitKeeps
    <2>3. Grown
      BY <1>1, <2>2 DEF Grown, TableInv, Handles
    <2>4. Shapes' /\ Others(c)
      BY <1>1, <2>1, AwaitOthers DEF Shapes, Others, Stays
    <2>5. ListingsInv'
      BY <1>1, <2>3, ListingsKept
    <2> QED
      BY <2>2, <2>3, <2>4, <2>5, StepKeeps
  <1> QED
    BY <1>3, <1>4

\* The next block of a stream.
LEMMA ReaddirKeeps ==
  ASSUME IInv, NEW c \in Clients, Readdir(c)
  PROVE  IInv' /\ Grown
  <1>1. Shapes /\ RequestInv(c) /\ StreamInv(c) /\ pc[c] = "open"
    BY DEF IInv, Readdir
  <1>2. dir' = dir /\ want' = want /\ nodeOf' = nodeOf /\ held' = held
    BY DEF Readdir, listings
  <1>3. dir[c] \in known /\ nodeOf[dir[c]] \in Dirs /\ want[c] = NoNode
    BY <1>1 DEF RequestInv, StreamInv
  <1>4. offset[c] = Len(seen[c]) /\ Returned(seen[c], nodeOf[dir[c]])
    BY <1>1, <1>3 DEF StreamInv
  <1>5. GetEntries(c, dir[c], NoNode)
    BY DEF Readdir
  <1>6. PICK i \in known : i = dir[c]
    BY <1>3
  <1> QED
    BY <1>1, <1>2, <1>3, <1>4, <1>5, <1>6, GetEntriesKeeps DEF Shapes

\* A lookup, up to its first await.
LEMMA LookupKeeps ==
  ASSUME IInv, NEW c \in Clients, NEW i \in Inodes, NEW name \in Names,
         Lookup(c, i, name)
  PROVE  IInv' /\ Grown
  <1>1. /\ Shapes /\ TableInv /\ ListingsInv
        /\ StreamInv(c) /\ AnswerInv(c) /\ pc[c] = "idle"
    BY DEF IInv, Lookup
  <1>2. /\ nodeOf' = nodeOf /\ held' = held /\ i \in known /\ nodeOf[i] \in Dirs
        /\ dir' = [dir EXCEPT ![c] = i] /\ want' = [want EXCEPT ![c] = name]
    BY DEF Lookup, listings, KnownDir
  <1>3. /\ dir'[c] = i /\ want'[c] = name
        /\ DOMAIN dir' = Clients /\ DOMAIN want' = Clients
        /\ \A u \in Clients \ {c} : dir'[u] = dir[u] /\ want'[u] = want[u]
    BY <1>1, <1>2 DEF Shapes
  <1>4. name \in Nodes /\ name # NoNode
    BY BoundAssumption, TreeAssumption
  <1>5. CASE nodeOf[i] \in OnTheFly
    <2>1. Await(c, "metadata", <<>>)
      BY <1>5 DEF Lookup
    <2>2. Table /\ seen[c] \in Seq(Nodes) /\ got[c] \in 1 .. Len(nodeOf') \cup {0}
      BY <1>1, <1>2 DEF Table, TableInv, Handles, StreamInv, AnswerInv
    <2>3. known' = known /\ RequestInv(c)' /\ StreamInv(c)' /\ AnswerInv(c)'
      BY <1>1, <1>2, <1>3, <1>4, <2>1, <2>2, AwaitKeeps
    <2>4. Grown
      BY <1>1, <1>2, <2>3 DEF Grown, TableInv, Handles
    <2>5. Shapes' /\ Others(c)
      BY <1>1, <1>3, <2>1, AwaitOthers DEF Shapes, Others, Stays
    <2>6. ListingsInv'
      BY <1>1, <1>2, <2>4, ListingsKept
    <2> QED
      BY <2>3, <2>4, <2>5, <2>6, StepKeeps
  <1>6. CASE nodeOf[i] \notin OnTheFly
    <2>1. GetEntries(c, i, name)
      BY <1>6 DEF Lookup
    <2> QED
      BY <1>2, <1>3, <1>4, <1>6, <2>1, GetEntriesKeeps
  <1> QED
    BY <1>5, <1>6

\* A step of one client that leaves the table, the listings and what the kernel
\* was given as they were.
LEMMA LocalKeeps ==
  ASSUME IInv, NEW c \in Clients, nodeOf' = nodeOf, held' = held, known' = known,
         Shapes', Others(c), RequestInv(c)', StreamInv(c)', AnswerInv(c)'
  PROVE  IInv' /\ Grown
  <1>1. TableInv /\ ListingsInv
    BY DEF IInv
  <1>2. Grown
    BY <1>1 DEF Grown, TableInv, Handles
  <1>3. ListingsInv'
    BY <1>1, <1>2, ListingsKept
  <1> QED
    BY <1>2, <1>3, StepKeeps

\* A client opens a stream.
LEMMA OpendirKeeps ==
  ASSUME IInv, NEW c \in Clients, NEW i \in Inodes, Opendir(c, i)
  PROVE  IInv' /\ Grown
  <1>1. /\ Shapes /\ RequestInv(c) /\ StreamInv(c) /\ AnswerInv(c)
        /\ pc[c] = "idle" /\ i \in known /\ nodeOf[i] \in Dirs
    BY DEF IInv, Opendir, KnownDir
  <1>2. /\ nodeOf' = nodeOf /\ held' = held /\ known' = known
        /\ pc' = [pc EXCEPT ![c] = "open"] /\ dir' = [dir EXCEPT ![c] = i]
        /\ want' = want /\ offset' = offset /\ made' = made /\ seen' = seen /\ got' = got
    BY DEF Opendir, listings
  <1>3. Shapes' /\ Others(c)
    BY <1>1, <1>2 DEF Shapes, Others, Stays
  <1>4. pc'[c] = "open" /\ dir'[c] = i
    BY <1>1, <1>2 DEF Shapes
  <1>5. seen[c] = <<>> /\ want[c] = NoNode /\ offset[c] = Len(seen[c]) /\ made[c] = <<>>
    BY <1>1 DEF RequestInv, StreamInv
  <1>6. Returned(seen[c], nodeOf[i])
    <2>1. nodeOf[i] \notin Live => Fixed(nodeOf[i]) \in Seq(Nodes)
      BY <1>1, ListingType
    <2>2. Len(seen[c]) = 0
      BY <1>5
    <2> QED
      BY <2>1, <2>2 DEF Returned
  <1>7. RequestInv(c)'
    BY <1>1, <1>2, <1>4, <1>5 DEF RequestInv
  <1>8. StreamInv(c)'
    BY <1>1, <1>2, <1>4, <1>5, <1>6 DEF StreamInv
  <1>9. AnswerInv(c)'
    BY <1>1, <1>2, <1>4 DEF AnswerInv, Handles
  <1> QED
    BY <1>2, <1>3, <1>7, <1>8, <1>9, LocalKeeps

\* A request whose metadata cannot be had.
LEMMA FailKeeps ==
  ASSUME IInv, NEW c \in Clients, Fail(c)
  PROVE  IInv' /\ Grown
  <1>1. /\ Shapes /\ RequestInv(c) /\ StreamInv(c) /\ AnswerInv(c)
        /\ pc[c] \in {"open", "metadata"}
    BY DEF IInv, Fail
  <1>2. /\ nodeOf' = nodeOf /\ held' = held /\ known' = known /\ dir' = dir
        /\ pc' = [pc EXCEPT ![c] = "error"]
        /\ want' = want /\ offset' = offset /\ made' = made /\ seen' = seen /\ got' = got
    BY DEF Fail, listings
  <1>3. Shapes' /\ Others(c)
    BY <1>1, <1>2 DEF Shapes, Others, Stays
  <1>4. pc'[c] = "error"
    BY <1>1, <1>2 DEF Shapes
  <1>5. RequestInv(c)'
    BY <1>1, <1>2, <1>4 DEF RequestInv
  <1>6. StreamInv(c)'
    BY <1>1, <1>2, <1>4 DEF StreamInv
  <1>7. AnswerInv(c)'
    BY <1>1, <1>2, <1>4 DEF AnswerInv, Handles
  <1> QED
    BY <1>2, <1>3, <1>5, <1>6, <1>7, LocalKeeps

\* A client forgets its request.
LEMMA DoneKeeps ==
  ASSUME IInv, NEW c \in Clients, Done(c)
  PROVE  IInv' /\ Grown
  <1>1. /\ Shapes /\ TableInv /\ RequestInv(c) /\ pc[c] \in {"answered", "end", "error"}
    BY DEF IInv, Done
  <1>2. /\ nodeOf' = nodeOf /\ held' = held /\ known' = known /\ made' = made
        /\ pc' = [pc EXCEPT ![c] = "idle"] /\ dir' = [dir EXCEPT ![c] = 1]
        /\ want' = [want EXCEPT ![c] = NoNode] /\ offset' = [offset EXCEPT ![c] = 0]
        /\ seen' = [seen EXCEPT ![c] = <<>>] /\ got' = [got EXCEPT ![c] = 0]
    BY DEF Done, listings
  <1>3. Shapes' /\ Others(c)
    BY <1>1, <1>2 DEF Shapes, Others, Stays
  <1>4. /\ pc'[c] = "idle" /\ dir'[c] = 1 /\ want'[c] = NoNode /\ offset'[c] = 0
        /\ seen'[c] = <<>> /\ got'[c] = 0
    BY <1>1, <1>2 DEF Shapes
  <1>5. 1 \in known /\ nodeOf[1] \in Dirs
    BY <1>1 DEF TableInv
  <1>6. Returned(<<>>, nodeOf[1]) /\ Len(<<>>) = 0 /\ <<>> \in Seq(Nodes)
    <2>1. nodeOf[1] \notin Live => Fixed(nodeOf[1]) \in Seq(Nodes)
      BY <1>5, ListingType
    <2> QED
      BY <2>1 DEF Returned
  <1>7. RequestInv(c)'
    BY <1>1, <1>2, <1>4, <1>5 DEF RequestInv
  <1>8. StreamInv(c)'
    BY <1>2, <1>4, <1>6 DEF StreamInv
  <1>9. AnswerInv(c)'
    BY <1>4 DEF AnswerInv
  <1> QED
    BY <1>2, <1>3, <1>7, <1>8, <1>9, LocalKeeps

\* ArchiveDir.lookup: one more inode, which the kernel is given.
LEMMA MountArtifactKeeps ==
  ASSUME IInv, NEW c \in Clients, MountArtifact(c)
  PROVE  IInv' /\ Grown
  <1> DEFINE d == nodeOf[dir[c]]
  <1>1. /\ Shapes /\ TableInv /\ ListingsInv
        /\ RequestInv(c) /\ StreamInv(c) /\ AnswerInv(c) /\ pc[c] = "metadata"
        /\ d \in OnTheFly /\ want[c] # NoNode /\ want[c] \in ToSet(Children[d])
    BY DEF IInv, MountArtifact
  <1>2. /\ nodeOf' = Append(nodeOf, want[c]) /\ held' = held
        /\ known' = known \cup {Len(nodeOf')}
        /\ pc' = [pc EXCEPT ![c] = "answered"] /\ got' = [got EXCEPT ![c] = Len(nodeOf')]
        /\ dir' = dir /\ want' = want /\ offset' = offset /\ made' = made /\ seen' = seen
    BY DEF MountArtifact, listings
  <1>3. Shapes' /\ Others(c)
    BY <1>1, <1>2 DEF Shapes, Others, Stays
  <1>4. pc'[c] = "answered" /\ got'[c] = Len(nodeOf')
    BY <1>1, <1>2 DEF Shapes
  <1>5. want[c] \in Nodes /\ nodeOf \in Seq(Nodes)
    BY <1>1 DEF RequestInv, TableInv
  <1>6. /\ nodeOf' \in Seq(Nodes) /\ Len(nodeOf') = Len(nodeOf) + 1
        /\ \A i \in Handles : nodeOf'[i] = nodeOf[i]
        /\ nodeOf'[Len(nodeOf')] = want[c]
    BY <1>2, <1>5 DEF Handles
  <1>7. Grown
    <2>1. PICK n \in Nat : n = Len(nodeOf) /\ n + 1 = Len(nodeOf')
      BY <1>5, <1>6
    <2>2. known \subseteq 1 .. n
      BY <1>1, <2>1 DEF TableInv, Handles
    <2>3. known' \subseteq 1 .. n + 1 /\ known \subseteq known'
      <3>1. n + 1 \in 1 .. n + 1 /\ 1 .. n \subseteq 1 .. n + 1
        OBVIOUS
      <3>2. known' = known \cup {n + 1}
        BY <1>2, <2>1
      <3> QED
        BY <2>2, <3>1, <3>2
    <2> QED
      BY <1>6, <2>1, <2>3 DEF Grown
  <1>8. ListingsInv'
    BY <1>1, <1>2, <1>7, ListingsKept
  <1>9. dir[c] \in Handles /\ nodeOf'[dir[c]] = d
    BY <1>1, <1>6 DEF TableInv, RequestInv
  <1>10. RequestInv(c)'
    BY <1>1, <1>2, <1>4, <1>9 DEF RequestInv
  <1>11. StreamInv(c)'
    BY <1>1, <1>2, <1>4, <1>9 DEF StreamInv
  <1>12. AnswerInv(c)'
    <2>1. got'[c] \in Handles' /\ got'[c] # 0 /\ want'[c] = nodeOf'[got'[c]]
      BY <1>2, <1>4, <1>6 DEF Handles
    <2> QED
      BY <1>1, <1>2, <1>9, <2>1 DEF AnswerInv
  <1> QED
    BY <1>3, <1>7, <1>8, <1>10, <1>11, <1>12, StepKeeps

\* The children created between two awaits have the next inodes, and are those
\* of the listing.
Extended(table, listing, entries, k, last, new, children) ==
    /\ new = table \o SubSeq(listing, k + 1, last)
    /\ children = entries \o [j \in 1 .. last - k |-> Len(table) + j]
    /\ new \in Seq(Nodes) /\ Len(new) = Len(table) + last - k
    /\ \A i \in 1 .. Len(table) : new[i] = table[i]
    /\ children \in Seq(1 .. Len(new)) /\ Len(children) = last
    /\ \A j \in 1 .. k : children[j] = entries[j]
    /\ \A j \in k + 1 .. last : new[children[j]] = listing[j]

LEMMA Created ==
  ASSUME NEW table \in Seq(Nodes), NEW listing \in Seq(Nodes),
         NEW entries \in Seq(1 .. Len(table)), NEW k \in Nat, k = Len(entries),
         NEW last \in Nat, k <= last, last <= Len(listing)
  PROVE  \E new, children :
           Extended(table, listing, entries, k, last, new, children)
  <1>1. PICK n \in Nat : n = Len(table)
    OBVIOUS
  <1>2. PICK m \in Nat : m = last - k /\ k + m = last
    OBVIOUS
  <1>3. PICK more \in Seq(Nodes) :
          /\ more = SubSeq(listing, k + 1, last) /\ Len(more) = m
          /\ \A j \in 1 .. m : more[j] = listing[k + j]
    <2>1. SubSeq(listing, k + 1, last) \in Seq(Nodes)
      BY WithinBounds
    <2>2. Len(SubSeq(listing, k + 1, last)) = m
      BY <1>2, WithinBounds
    <2>3. \A j \in 1 .. m : SubSeq(listing, k + 1, last)[j] = listing[k + j]
      BY <1>2, WithinBounds
    <2> QED
      BY <2>1, <2>2, <2>3
  <1>4. PICK inodes \in Seq(1 .. n + m) :
          /\ inodes = [j \in 1 .. last - k |-> Len(table) + j] /\ Len(inodes) = m
          /\ \A j \in 1 .. m : inodes[j] = n + j
    <2>1. [j \in 1 .. last - k |-> Len(table) + j] = [j \in 1 .. m |-> n + j]
      BY <1>1, <1>2
    <2>2. PICK f \in [1 .. m -> 1 .. n + m] : f = [j \in 1 .. m |-> n + j]
      <3>1. \A j \in 1 .. m : n + j \in 1 .. n + m
        OBVIOUS
      <3>2. [j \in 1 .. m |-> n + j] \in [1 .. m -> 1 .. n + m]
        BY ONLY <3>1
      <3> QED
        BY ONLY <3>2
    <2>3. f \in Seq(1 .. n + m) /\ Len(f) = m
      BY ONLY m \in Nat, f \in [1 .. m -> 1 .. n + m], FunctionIsSeq
    <2> QED
      BY <2>1, <2>2, <2>3
  <1>5. PICK new \in Seq(Nodes) :
          /\ new = table \o more /\ Len(new) = n + m
          /\ \A i \in 1 .. n : new[i] = table[i]
          /\ \A j \in 1 .. m : new[n + j] = more[j]
    <2> DEFINE r == table \o more
    <2>1. r \in Seq(Nodes)
      BY ONLY table \in Seq(Nodes), more \in Seq(Nodes)
    <2>2. Len(r) = n + m
      <3>1. m = Len(more)
        BY <1>3
      <3> QED
        BY ONLY <1>1, <3>1, table \in Seq(Nodes), more \in Seq(Nodes)
    <2>3. \A i \in 1 .. n : r[i] = table[i]
      BY ONLY <1>1, table \in Seq(Nodes), more \in Seq(Nodes)
    <2>4. ASSUME NEW j \in 1 .. m
          PROVE  r[n + j] = more[j]
      BY ONLY <1>1, <1>3, m \in Nat, n \in Nat, j \in 1 .. m,
              table \in Seq(Nodes), more \in Seq(Nodes)
    <2> HIDE DEF r
    <2>5. \E new \in Seq(Nodes) :
             /\ new = r /\ Len(new) = n + m
             /\ \A i \in 1 .. n : new[i] = table[i]
             /\ \A j \in 1 .. m : new[n + j] = more[j]
      BY ONLY <2>1, <2>2, <2>3, <2>4, Zenon
    <2> QED
      BY ONLY <2>5, Zenon DEF r
  <1>6. PICK old \in Seq(1 .. n + m) : old = entries
    <2>1. 1 .. n \subseteq 1 .. n + m
      OBVIOUS
    <2>2. entries \in Seq(1 .. n)
      BY <1>1
    <2> QED
      BY <2>1, <2>2, SeqMonotonic
  <1>7. PICK children \in Seq(1 .. n + m) :
          /\ children = old \o inodes /\ Len(children) = k + m
          /\ \A j \in 1 .. k : children[j] = old[j]
          /\ \A j \in 1 .. m : children[k + j] = inodes[j]
    <2> DEFINE r == old \o inodes
    <2>1. k = Len(old) /\ m = Len(inodes)
      BY <1>4, <1>6
    <2>2. PICK S : S = 1 .. n + m
      OBVIOUS
    <2>3. old \in Seq(S) /\ inodes \in Seq(S)
      BY <2>2
    <2>4. r \in Seq(S)
      BY ONLY <2>3
    <2>5. Len(r) = k + m
      BY ONLY <2>1, <2>3
    <2>6. \A i \in 1 .. k : r[i] = old[i]
      BY ONLY <2>1, <2>3
    <2>7. ASSUME NEW j \in 1 .. m
          PROVE  r[k + j] = inodes[j]
      BY ONLY <2>1, <2>3, m \in Nat, k \in Nat, j \in 1 .. m
    <2> HIDE DEF r
    <2>8. \E children \in Seq(S) :
             /\ children = r /\ Len(children) = k + m
             /\ \A j \in 1 .. k : children[j] = old[j]
             /\ \A j \in 1 .. m : children[k + j] = inodes[j]
      BY ONLY <2>4, <2>5, <2>6, <2>7, Zenon
    <2> QED
      BY ONLY <2>2, <2>8, Zenon DEF r
  <1>8. ASSUME NEW j \in k + 1 .. last
        PROVE  new[children[j]] = listing[j]
    <2>1. PICK i \in 1 .. m : i = j - k /\ k + i = j
      <3>1. j - k \in 1 .. m /\ k + (j - k) = j
        BY <1>2
      <3> QED
        BY <3>1
    <2>2. children[j] = inodes[i] /\ inodes[i] = n + i
      BY <1>4, <1>7, <2>1
    <2>3. new[n + i] = more[i] /\ more[i] = listing[j]
      BY <1>3, <1>5, <2>1
    <2> QED
      BY <2>2, <2>3
  <1>9. new = table \o SubSeq(listing, k + 1, last)
    BY <1>3, <1>5
  <1>10. children = entries \o [j \in 1 .. last - k |-> Len(table) + j]
    BY <1>4, <1>6, <1>7
  <1>11. Len(new) = Len(table) + last - k /\ \A i \in 1 .. Len(table) : new[i] = table[i]
    BY <1>1, <1>2, <1>5
  <1>12. children \in Seq(1 .. Len(new)) /\ \A j \in 1 .. k : children[j] = entries[j]
    BY <1>5, <1>6, <1>7
  <1>13. Len(children) = last /\ new \in Seq(Nodes)
    BY <1>2, <1>7
  <1>14. Extended(table, listing, entries, k, last, new, children)
    BY <1>8, <1>9, <1>10, <1>11, <1>12, <1>13, Zenon DEF Extended
  <1> QED
    BY <1>14

\* What the cache holds after a listing is stored: that listing, and others it
\* held before.
LEMMA CacheSetHolds ==
  ASSUME NEW i, NEW value, CacheSet(i, value)
  PROVE  \A j \in DOMAIN held' :
            \/ j = i /\ held'[j] = value
            \/ j \in DOMAIN held /\ held'[j] = held[j]
  <1> DEFINE values == [k \in DOMAIN held \cup {i} |-> IF k = i THEN value ELSE held[k]]
  <1>1. PICK evicted : held' = Restrict(values, DOMAIN values \ ToSet(evicted))
    BY DEF CacheSet
  <1>2. \A j \in DOMAIN held' : j \in DOMAIN values /\ held'[j] = values[j]
    BY <1>1 DEF Restrict
  <1> QED
    BY <1>2

\* What a computation starts from when it goes on after an await.
LEMMA ComputeStarts ==
  ASSUME IInv, NEW c \in Clients, pc[c] \in {"metadata", "link"},
         NEW d \in Dirs, d = nodeOf[dir[c]],
         NEW listing \in Seq(Nodes), listing = Listing(d)
  PROVE  \E entries \in Seq(1 .. Len(nodeOf)) :
            /\ entries = made[c] /\ Partial(nodeOf, entries, d)
            /\ pc[c] = "metadata" => Len(entries) = 0
            /\ pc[c] = "link" => d \notin Live /\ Len(entries) < Len(listing)
  <1>1. RequestInv(c)
    BY DEF IInv
  <1>2. CASE pc[c] = "metadata"
    <2>1. made[c] = <<>>
      BY <1>1, <1>2 DEF RequestInv
    <2>2. Partial(nodeOf, <<>>, d)
      <3>1. <<>> \in Seq(1 .. Len(nodeOf)) /\ Len(<<>>) = 0
        OBVIOUS
      <3>2. d \notin Live => Len(Fixed(d)) \in Nat
        BY ListingType
      <3> QED
        BY <3>1, <3>2 DEF Partial
    <2> QED
      BY <1>2, <2>1, <2>2 DEF Partial
  <1>3. CASE pc[c] = "link"
    <2>1. d \notin Live /\ Partial(nodeOf, made[c], d) /\ Len(made[c]) < Len(Fixed(d))
      BY <1>1, <1>3 DEF RequestInv
    <2>2. Fixed(d) = listing
      BY <2>1, ListingType
    <2> QED
      BY <1>3, <2>1, <2>2 DEF Partial
  <1> QED
    BY <1>2, <1>3

\* Up to where it goes.
LEMMA ComputeEnds ==
  ASSUME NEW d \in Dirs, NEW listing \in Seq(Nodes), listing = Listing(d),
         NEW k \in Nat, NEW awaited \in Nat,
         \/ k = 0 /\ awaited = 0
         \/ d \notin Live /\ k < Len(listing) /\ awaited = k + 1
  PROVE  \E last \in Nat :
            /\ last = NextLink(listing, awaited) - 1
            /\ k <= last /\ last <= Len(listing)
            /\ last < Len(listing) => d \notin Live
  <1>1. Len(listing) \in Nat
    OBVIOUS
  <1>2. awaited \in 0 .. Len(listing)
    BY <1>1
  <1>3. PICK next \in awaited + 1 .. Len(listing) + 1 : next = NextLink(listing, awaited)
    BY <1>2, NextLinkBounds
  <1>4. d \in Live => next = Len(listing) + 1
    BY <1>3, LiveHasNoLink
  <1>5. next - 1 \in Nat /\ k <= next - 1 /\ next - 1 <= Len(listing)
    BY <1>1, <1>3
  <1>6. next - 1 < Len(listing) => d \notin Live
    BY <1>1, <1>3, <1>4
  <1> QED
    BY <1>3, <1>5, <1>6

\* What a computation does to the directory d of inode i, from one await to the
\* next: the table goes from table to new, the children from the entries made
\* before to the first last ones of the listing.
ComputesTo(c, i, d, listing, table, entries, last, new, children) ==
    /\ i = dir[c] /\ d = nodeOf[i] /\ listing = Listing(d) /\ table = nodeOf
    /\ entries = made[c] /\ Partial(nodeOf, entries, d)
    /\ pc[c] \in {"metadata", "link"}
    /\ pc[c] = "metadata" => Len(entries) = 0
    /\ pc[c] = "link" => d \notin Live /\ Len(entries) < Len(listing)
    /\ Len(entries) <= last /\ last <= Len(listing)
    /\ last < Len(listing) => d \notin Live
    /\ Extended(table, listing, entries, Len(entries), last, new, children)
    /\ nodeOf' = new
    /\ UNCHANGED <<rows, dir, want, stable, purged>>
    /\ d \in OnTheFly => want[c] = NoNode
    /\ \/ last < Len(listing) /\ Await(c, "link", children) /\ UNCHANGED listings
       \/ last = Len(listing) /\ Store(i, children) /\ Use(c, children, want[c])

LEMMA ComputeDoes ==
  ASSUME IInv, NEW c \in Clients, Compute(c)
  PROVE  \E i \in known, d \in Dirs, listing \in Seq(Nodes), table \in Seq(Nodes) :
            \E entries \in Seq(1 .. Len(table)), last \in Nat : \E new, children :
               ComputesTo(c, i, d, listing, table, entries, last, new, children)
  <1>1. /\ Shapes /\ TableInv /\ ListingsInv
        /\ RequestInv(c) /\ StreamInv(c) /\ AnswerInv(c)
        /\ pc[c] \in {"metadata", "link"}
    BY DEF IInv, Compute
  <1>2. PICK i \in known : i = dir[c]
    BY <1>1 DEF RequestInv
  <1>3. PICK d \in Dirs : d = nodeOf[dir[c]]
    BY <1>1 DEF RequestInv
  <1>4. PICK listing \in Seq(Nodes) : listing = Listing(d)
    BY ListingType
  <1>5. PICK table \in Seq(Nodes) : table = nodeOf
    BY <1>1 DEF TableInv
  <1>6. PICK entries \in Seq(1 .. Len(table)) :
            /\ entries = made[c] /\ Partial(nodeOf, entries, d)
            /\ pc[c] = "metadata" => Len(entries) = 0
            /\ pc[c] = "link" => d \notin Live /\ Len(entries) < Len(listing)
    BY <1>1, <1>3, <1>4, <1>5, ComputeStarts
  <1>7. PICK k \in Nat : k = Len(entries)
    OBVIOUS
  <1>8. PICK awaited \in Nat : awaited = IF pc[c] = "link" THEN k + 1 ELSE k
    OBVIOUS
  <1>9. PICK last \in Nat :
            /\ last = NextLink(listing, awaited) - 1
            /\ k <= last /\ last <= Len(listing)
            /\ last < Len(listing) => d \notin Live
    <2>1. \/ k = 0 /\ awaited = 0
          \/ d \notin Live /\ k < Len(listing) /\ awaited = k + 1
      BY <1>1, <1>6, <1>7, <1>8
    <2> QED
      BY <1>4, <2>1, ComputeEnds
  <1>10. PICK new, children :
            Extended(table, listing, entries, k, last, new, children)
    BY <1>7, <1>9, Created
  <1>11. /\ nodeOf' = new
         /\ UNCHANGED <<rows, dir, want, stable, purged>>
         /\ d \in OnTheFly => want[c] = NoNode
         /\ \/ last < Len(listing) /\ Await(c, "link", children) /\ UNCHANGED listings
            \/ ~(last < Len(listing)) /\ Store(i, children) /\ Use(c, children, want[c])
    BY <1>2, <1>3, <1>4, <1>5, <1>6, <1>7, <1>8, <1>9, <1>10, ZenonT(30)
    DEF Compute, Extended
  <1>12. \/ last < Len(listing) /\ Await(c, "link", children) /\ UNCHANGED listings
         \/ last = Len(listing) /\ Store(i, children) /\ Use(c, children, want[c])
    <2>1. ~(last < Len(listing)) => last = Len(listing)
      BY <1>9
    <2> QED
      BY <1>11, <2>1
  <1>13. ComputesTo(c, i, d, listing, table, entries, last, new, children)
    <2>1. i = dir[c] /\ d = nodeOf[i] /\ listing = Listing(d) /\ table = nodeOf
      BY <1>2, <1>3, <1>4, <1>5
    <2>2. /\ entries = made[c] /\ Partial(nodeOf, entries, d)
          /\ pc[c] \in {"metadata", "link"}
          /\ pc[c] = "metadata" => Len(entries) = 0
          /\ pc[c] = "link" => d \notin Live /\ Len(entries) < Len(listing)
      BY <1>1, <1>6
    <2>3. /\ Len(entries) <= last /\ last <= Len(listing)
          /\ last < Len(listing) => d \notin Live
          /\ Extended(table, listing, entries, Len(entries), last, new, children)
      BY <1>7, <1>9, <1>10
    <2> QED
      BY <1>11, <1>12, <2>1, <2>2, <2>3, Zenon DEF ComputesTo
  <1> QED
    BY <1>13

\* The computation of a directory, from one await to the next.
LEMMA ComputeKeeps ==
  ASSUME IInv, NEW c \in Clients, Compute(c)
  PROVE  IInv' /\ Grown
  <1>1. /\ Shapes /\ TableInv /\ ListingsInv
        /\ RequestInv(c) /\ StreamInv(c) /\ AnswerInv(c)
        /\ pc[c] \in {"metadata", "link"}
    BY DEF IInv, Compute
  <1>2. PICK i \in known, d \in Dirs, listing \in Seq(Nodes), table \in Seq(Nodes) :
            \E entries \in Seq(1 .. Len(table)), last \in Nat : \E new, children :
               ComputesTo(c, i, d, listing, table, entries, last, new, children)
    BY ComputeDoes
  <1>3. PICK entries \in Seq(1 .. Len(table)), last \in Nat :
            \E new, children :
               ComputesTo(c, i, d, listing, table, entries, last, new, children)
    BY <1>2
  <1>4. PICK new, children :
            ComputesTo(c, i, d, listing, table, entries, last, new, children)
    BY <1>3
  <1>5. i = dir[c]
    BY <1>4 DEF ComputesTo
  <1>6. d = nodeOf[dir[c]]
    BY <1>4 DEF ComputesTo
  <1>7. listing = Listing(d)
    BY <1>4 DEF ComputesTo
  <1>8. table = nodeOf
    BY <1>4 DEF ComputesTo
  <1>9. entries = made[c] /\ Partial(nodeOf, entries, d)
    BY <1>4 DEF ComputesTo
  <1>10. PICK k \in Nat : k = Len(entries)
    OBVIOUS
  <1>11. k <= last /\ last <= Len(listing)
    BY <1>10, <1>4 DEF ComputesTo
  <1>12. Extended(table, listing, entries, k, last, new, children)
    BY <1>10, <1>4 DEF ComputesTo
  <1>13. /\ nodeOf' = new /\ dir' = dir /\ want' = want
         /\ d \in OnTheFly => want[c] = NoNode
         /\ \/ /\ last < Len(listing) /\ Await(c, "link", children) /\ held' = held
               /\ d \notin Live
            \/ /\ last = Len(listing) /\ Store(i, children)
               /\ Use(c, children, want[c])
    BY <1>4 DEF ComputesTo, listings
  <1>14. Len(table) \in Nat /\ Len(new) \in Nat /\ Len(table) <= Len(new)
    <2>1. Len(table) \in Nat
      OBVIOUS
    <2>2. Len(new) = Len(table) + last - k
      BY <1>12 DEF Extended
    <2> QED
      BY <1>11, <2>1, <2>2
  <1>15. Table /\ known \subseteq 1 .. Len(table)
    <2>1. known \subseteq 1 .. Len(table)
      BY <1>1, <1>8 DEF TableInv, Handles
    <2>2. 1 .. Len(table) \subseteq 1 .. Len(new)
      BY <1>14
    <2> QED
      BY <1>12, <1>13, <2>1, <2>2 DEF Extended, Table
  <1>16. Partial(nodeOf', children, d)
    <2>1. ASSUME d \notin Live, NEW j \in 1 .. last
          PROVE  new[children[j]] = Fixed(d)[j]
      <3>1. listing = Fixed(d)
        BY <1>7, <2>1, ListingType
      <3>2. CASE j \in 1 .. k
        <4>1. children[j] = entries[j] /\ entries[j] \in 1 .. Len(table)
          BY <1>10, <1>12, <3>2, SMTT(30) DEF Extended
        <4>2. new[entries[j]] = table[entries[j]]
          BY <1>12, <4>1 DEF Extended
        <4>3. table[entries[j]] = Fixed(d)[j]
          BY <1>8, <1>9, <1>10, <2>1, <3>2 DEF Partial
        <4> QED
          BY <4>1, <4>2, <4>3
      <3>3. CASE j \in k + 1 .. last
        BY <1>12, <3>1, <3>3 DEF Extended
      <3> QED
        BY <3>2, <3>3
    <2>2. d \notin Live => last <= Len(Fixed(d))
      BY <1>7, <1>11, ListingType
    <2> QED
      BY <1>12, <1>13, <2>1, <2>2 DEF Extended, Partial
  <1>17. /\ dir'[c] = i /\ nodeOf'[i] = d /\ i \in Handles
    BY <1>1, <1>5, <1>6, <1>8, <1>12, <1>13, <1>15 DEF Extended, TableInv
  <1>18. /\ seen[c] \in Seq(Nodes) /\ got[c] \in 1 .. Len(nodeOf') \cup {0}
         /\ want[c] \in Nodes \cup {NoNode}
         /\ want[c] = NoNode => offset[c] = Len(seen[c]) /\ Returned(seen[c], d)
         /\ want[c] # NoNode => want[c] \in Nodes /\ d \notin OnTheFly
    <2>1. 1 .. Len(table) \subseteq 1 .. Len(new)
      BY <1>14
    <2>2. got[c] \in 1 .. Len(nodeOf') \cup {0}
      BY <1>1, <1>8, <1>13, <2>1 DEF AnswerInv, Handles
    <2> QED
      BY <1>1, <1>6, <1>13, <2>2 DEF RequestInv, StreamInv
  <1>19. ASSUME known \subseteq known', known' \subseteq 1 .. Len(nodeOf')
         PROVE  Grown
    BY <1>8, <1>12, <1>13, <1>14, <1>19 DEF Extended, Grown, Handles
  <1>20. CASE /\ last < Len(listing) /\ Await(c, "link", children) /\ held' = held
              /\ d \notin Live
    <2>1. d \notin Live /\ Len(children) < Len(Fixed(d))
      BY <1>7, <1>11, <1>12, <1>20, ListingType DEF Extended
    <2>2. known' = known /\ RequestInv(c)' /\ StreamInv(c)' /\ AnswerInv(c)'
      BY <1>1, <1>5, <1>13, <1>15, <1>16, <1>17, <1>18, <1>20, <2>1, AwaitKeeps
    <2>3. Grown
      BY <1>15, <1>19, <2>2 DEF Table
    <2>4. Shapes' /\ Others(c)
      BY <1>1, <1>13, <1>20, AwaitOthers DEF Shapes, Others, Stays
    <2>5. ListingsInv'
      BY <1>1, <1>20, <2>3, ListingsKept
    <2> QED
      BY <2>2, <2>3, <2>4, <2>5, StepKeeps
  <1>21. CASE last = Len(listing) /\ Store(i, children) /\ Use(c, children, want[c])
    <2>1. Whole(nodeOf', children, d)
      <3>1. d \notin Live => listing = Fixed(d)
        BY <1>7, ListingType
      <3> QED
        BY <1>12, <1>16, <1>21, <3>1 DEF Extended, Whole
    <2>2. /\ known \subseteq known' /\ known' \subseteq 1 .. Len(nodeOf')
          /\ RequestInv(c)' /\ StreamInv(c)' /\ AnswerInv(c)'
      <3>1. PICK name : name = want[c]
        OBVIOUS
      <3>2. Use(c, children, name) /\ want'[c] = name
        BY <1>13, <1>21, <3>1
      <3> QED
        BY <1>1, <1>5, <1>15, <1>17, <1>18, <2>1, <3>1, <3>2, UseKeeps
    <2>3. Grown
      BY <1>19, <2>2
    <2>4. Shapes' /\ Others(c)
      BY <1>1, <1>13, <1>21, UseOthers DEF Shapes, Others, Stays
    <2>5. held' = held \/ \A j \in DOMAIN held' :
                              \/ j = i /\ held'[j] = children
                              \/ j \in DOMAIN held /\ held'[j] = held[j]
      BY <1>21, CacheSetHolds DEF Store, listings
    <2>6. ListingsInv'
      <3>1. nodeOf[i] = d
        BY <1>5, <1>6
      <3>2. nodeOf[i] \in Dirs /\ Whole(nodeOf', children, nodeOf[i])
        BY <2>1, <3>1
      <3> QED
        BY <1>1, <1>17, <2>3, <2>5, <3>2, ListingsKept, ZenonT(30)
    <2> QED
      BY <2>2, <2>3, <2>4, <2>6, StepKeeps
  <1> QED
    BY <1>13, <1>20, <1>21

\* The rows of cache/ come and go beside all this.
LEMMA RestKeeps ==
  ASSUME IInv, UNCHANGED <<nodeOf, held, known, pc, dir, want, offset, made, seen, got>>
  PROVE  IInv' /\ Grown
  <1>1. Shapes /\ TableInv /\ ListingsInv
    BY DEF IInv
  <1>2. Grown
    BY <1>1 DEF Grown, TableInv, Handles
  <1>3. Shapes' /\ TableInv' /\ ListingsInv'
    BY <1>1, <1>2, TableKept, ListingsKept DEF Shapes
  <1>4. ASSUME NEW u \in Clients
        PROVE  RequestInv(u)' /\ StreamInv(u)' /\ AnswerInv(u)'
    BY <1>2, ClientKept DEF Stays
  <1> QED
    BY <1>2, <1>3, <1>4 DEF IInv

\* A new mount: the kernel has the root.
LEMMA InitHolds == Init => IInv
  <1> SUFFICES ASSUME Init PROVE IInv
    OBVIOUS
  <1>1. /\ nodeOf = <<Root>> /\ known = {1} /\ held = <<>>
        /\ pc = [c \in Clients |-> "idle"] /\ dir = [c \in Clients |-> 1]
        /\ want = [c \in Clients |-> NoNode] /\ offset = [c \in Clients |-> 0]
        /\ made = [c \in Clients |-> <<>>] /\ seen = [c \in Clients |-> <<>>]
        /\ got = [c \in Clients |-> 0]
    BY DEF Init, CacheInit
  <1>2. Root \in Dirs /\ Root \in Nodes
    BY TreeAssumption DEF Nodes
  <1>3. nodeOf \in Seq(Nodes) /\ Len(nodeOf) = 1 /\ nodeOf[1] = Root
    BY <1>1, <1>2
  <1>4. Shapes
    BY <1>1 DEF Shapes
  <1>5. TableInv
    BY <1>1, <1>2, <1>3 DEF TableInv, Handles
  <1>6. ListingsInv
    BY <1>1 DEF ListingsInv
  <1>7. ASSUME NEW c \in Clients
        PROVE  RequestInv(c) /\ StreamInv(c) /\ AnswerInv(c)
    <2>1. /\ pc[c] = "idle" /\ dir[c] = 1 /\ want[c] = NoNode /\ offset[c] = 0
          /\ made[c] = <<>> /\ seen[c] = <<>> /\ got[c] = 0
      BY <1>1
    <2>2. Returned(<<>>, Root) /\ <<>> \in Seq(Nodes) /\ Len(<<>>) = 0
      <3>1. Root \notin Live => Fixed(Root) \in Seq(Nodes)
        BY <1>2, ListingType
      <3> QED
        BY <3>1 DEF Returned
    <2> QED
      BY <1>1, <1>2, <1>3, <2>1, <2>2 DEF RequestInv, StreamInv, AnswerInv
  <1> QED
    BY <1>4, <1>5, <1>6, <1>7 DEF IInv

\* Every step keeps the invariant, and the table only grows.
LEMMA NextKeeps == (IInv /\ [Next]_vars) => (IInv' /\ Grown)
  <1> SUFFICES ASSUME IInv, [Next]_vars PROVE IInv' /\ Grown
    OBVIOUS
  <1>1. CASE \E c \in Clients, i \in Inodes : Opendir(c, i)
    BY <1>1, OpendirKeeps
  <1>2. CASE \E c \in Clients, i \in Inodes, n \in Names : Lookup(c, i, n)
    BY <1>2, LookupKeeps
  <1>3. ASSUME NEW c \in Clients, Step(c)
        PROVE  IInv' /\ Grown
    BY <1>3, ReaddirKeeps, MountArtifactKeeps, ComputeKeeps, FailKeeps, DoneKeeps DEF Step
  <1>4. CASE \E n \in RowNodes : Remember(n)
    BY <1>4, RestKeeps DEF Remember, listings, client
  <1>5. CASE \E i \in Inodes, n \in RowNodes : Unlink(i, n)
    BY <1>5, RestKeeps DEF Unlink, listings
  <1>6. CASE UNCHANGED vars
    BY <1>6, RestKeeps DEF vars, client
  <1> QED
    BY <1>1, <1>2, <1>3, <1>4, <1>5, <1>6 DEF Next

-----------------------------------------------------------------------------
(* Archived directories, and the inode table.                              *)

\* Whatever clients do, in any number and over any tree, and whatever is
\* evicted and computed again: inodes, listings, streams and answers agree.
THEOREM TreeInvariance == Spec => []IInv
  <1>1. IInv /\ [Next]_vars => IInv'
    BY NextKeeps
  <1> QED
    BY <1>1, InitHolds, PTL DEF Spec

\* No inode the kernel holds, and none in a cached listing, is without an entry
\* (Fuse.inode2entry): _inode2entry has what _alloc_inode gave out.
THEOREM HandlesAlwaysResolve == Spec => []HandlesResolve
  <1>1. IInv => HandlesResolve
    <2> SUFFICES ASSUME IInv, NEW i \in DOMAIN held, NEW j \in ToSet(held[i])
                 PROVE  j \in 1 .. Len(nodeOf)
      BY DEF IInv, TableInv, Handles, HandlesResolve
    <2> QED
      BY DEF IInv, ListingsInv, Whole, Partial, ToSet
  <1> QED
    BY <1>1, TreeInvariance, PTL

\* A stream over an archived directory returns what compute_entries lists, in
\* order and each entry once, though readdir resumes by position in a listing
\* that may have been evicted and computed anew since the last block.
THEOREM StreamsReturnListings == Spec => []StreamIsListing
  <1>1. IInv => StreamIsListing
    <2> SUFFICES ASSUME IInv, NEW c \in Clients, NEW d, d = nodeOf[dir[c]],
                        d \notin Live, pc[c] = "open" \/ pc[c] = "end"
                 PROVE  /\ IsPrefix(seen[c], Listing(d))
                        /\ pc[c] = "end" => seen[c] = Listing(d)
      BY DEF StreamIsListing
    <2>1. d \in Dirs /\ StreamInv(c)
      BY DEF IInv, RequestInv
    <2>2. PICK s \in Seq(Nodes) : s = seen[c]
      BY <2>1 DEF StreamInv
    <2>3. PICK t \in Seq(Nodes) : t = Listing(d) /\ t = Fixed(d)
      BY <2>1, ListingType
    <2>4. /\ Len(s) <= Len(t) /\ \A k \in 1 .. Len(s) : s[k] = t[k]
          /\ pc[c] = "end" => Len(s) = Len(t)
      BY <2>1, <2>2, <2>3 DEF StreamInv, Returned
    <2>5. IsPrefix(s, t)
      BY ONLY <2>4, s \in Seq(Nodes), t \in Seq(Nodes) DEF IsPrefix
    <2>6. pc[c] = "end" => s = t
      BY ONLY <2>4, s \in Seq(Nodes), t \in Seq(Nodes)
    <2> QED
      BY <2>2, <2>3, <2>5, <2>6
  <1> QED
    BY <1>1, TreeInvariance, PTL

\* A lookup in an archived directory finds a child under its name, and answers
\* ENOENT for a name that is no child's.
THEOREM LookupsAreExact == Spec => []LookupIsExact
  <1>1. IInv => LookupIsExact
    BY DEF IInv, AnswerInv, LookupIsExact
  <1> QED
    BY <1>1, TreeInvariance, PTL

\* The entry of an inode stays for as long as the mount does: nothing calls
\* _remove_inode, and a directory computed again has new inodes.
THEOREM InodesStay == Spec => InodesKeepTheirEntry
  <1> DEFINE Stay == \A i \in 1 .. Len(nodeOf) :
                 i <= Len(nodeOf') /\ nodeOf'[i] = nodeOf[i]
  <1>1. IInv /\ [Next]_vars => [Stay]_vars
    <2> SUFFICES ASSUME IInv, Grown PROVE Stay
      BY NextKeeps
    <2>1. \A i \in 1 .. Len(nodeOf) : nodeOf'[i] = nodeOf[i]
      BY DEF Grown, Handles
    <2>2. Len(nodeOf) \in Nat /\ Len(nodeOf') \in Nat /\ Len(nodeOf) <= Len(nodeOf')
      BY DEF IInv, TableInv, Grown
    <2> QED
      BY <2>1, <2>2
  <1>2. InodesKeepTheirEntry <=> [][Stay]_vars
    BY PTL DEF InodesKeepTheirEntry
  <1> HIDE DEF Stay
  <1> QED
    BY <1>1, <1>2, TreeInvariance, PTL DEF Spec

-----------------------------------------------------------------------------
(* Types, and the sizes of what the cache holds.                           *)

Labels == {"idle", "open", "metadata", "link", "answered", "end", "error"}

\* g is f, or differs from it in c's value.
Sets(f, g, c) == g = f \/ \E e : g = [f EXCEPT ![c] = e]

\* A step of c changes no other client's variables.
ClientStep(c) ==
    /\ Sets(pc, pc', c) /\ Sets(dir, dir', c) /\ Sets(want, want', c)
    /\ Sets(offset, offset', c) /\ Sets(made, made', c) /\ Sets(seen, seen', c)
    /\ Sets(got, got', c) /\ Sets(stable, stable', c) /\ Sets(purged, purged', c)

\* What IInv does not say of c's variables.
Values(c) ==
    /\ pc[c] \in Labels /\ offset[c] \in Nat
    /\ stable[c] \in SUBSET RowNodes /\ purged[c] \in BOOLEAN

\* Readdirs and lookups: what they leave alone.
LEMMA UseSteps ==
  ASSUME NEW c \in Clients, NEW listing, NEW name, Use(c, listing, name),
         UNCHANGED <<stable, purged>>, Sets(dir, dir', c), Sets(want, want', c)
  PROVE  /\ ClientStep(c)
         /\ name # NoNode => offset' = offset
         /\ \E e \in Labels : pc' = [pc EXCEPT ![c] = e]
  <1>1. Sets(made, made', c)
    BY DEF Use, Sets
  <1>2. CASE name = NoNode
    <2>1. Serve(c, listing)
      BY <1>2 DEF Use
    <2>2. Sets(seen, seen', c) /\ Sets(offset, offset', c) /\ got' = got
      BY <2>1 DEF Serve, Sets
    <2>3. \E e \in Labels : pc' = [pc EXCEPT ![c] = e]
      BY <2>1 DEF Serve, Labels
    <2> QED
      BY <1>1, <1>2, <2>2, <2>3 DEF ClientStep, Sets
  <1>3. CASE name # NoNode
    <2>1. Find(c, listing, name)
      BY <1>3 DEF Use
    <2>2. Sets(got, got', c) /\ seen' = seen /\ offset' = offset
      BY <2>1 DEF Find, Sets
    <2>3. \E e \in Labels : pc' = [pc EXCEPT ![c] = e]
      BY <2>1 DEF Find, Labels
    <2> QED
      BY <1>1, <2>2, <2>3 DEF ClientStep, Sets
  <1> QED
    BY <1>2, <1>3

\* And a request that awaits something.
LEMMA AwaitSteps ==
  ASSUME NEW c \in Clients, NEW label \in Labels, NEW children, Await(c, label, children),
         UNCHANGED <<stable, purged>>, Sets(dir, dir', c), Sets(want, want', c)
  PROVE  /\ ClientStep(c) /\ offset' = offset
         /\ \E e \in Labels : pc' = [pc EXCEPT ![c] = e]
  BY DEF Await, ClientStep, Sets

\* A function changed in one place has the type it had, if its value has there.
LEMMA SetsType ==
  ASSUME NEW C, NEW S, NEW T, NEW f \in [C -> S], NEW g, NEW c \in C, Sets(f, g, c),
         \A u \in C : g[u] \in T
  PROVE  g \in [C -> T] /\ \A u \in C \ {c} : g[u] = f[u]
  BY DEF Sets

\* The types of the clients' variables.
ClientTypes ==
    /\ pc \in [Clients -> Labels]
    /\ dir \in [Clients -> Handles]
    /\ want \in [Clients -> Nodes \cup {NoNode}]
    /\ offset \in [Clients -> Nat]
    /\ made \in [Clients -> Seq(Handles)]
    /\ seen \in [Clients -> Seq(Nodes)]
    /\ got \in [Clients -> Handles \cup {0}]
    /\ stable \in [Clients -> SUBSET RowNodes]
    /\ purged \in [Clients -> BOOLEAN]

\* What IInv says of the types.
InvTypes ==
    \A c \in Clients :
        /\ dir[c] \in Handles /\ want[c] \in Nodes \cup {NoNode}
        /\ made[c] \in Seq(Handles) /\ seen[c] \in Seq(Nodes) /\ got[c] \in Handles \cup {0}

LEMMA InvHasTypes == IInv => InvTypes
  <1> SUFFICES ASSUME IInv, NEW c \in Clients
               PROVE  /\ dir[c] \in Handles /\ want[c] \in Nodes \cup {NoNode}
                      /\ made[c] \in Seq(Handles) /\ seen[c] \in Seq(Nodes)
                      /\ got[c] \in Handles \cup {0}
    BY DEF InvTypes
  <1>1. RequestInv(c) /\ StreamInv(c) /\ AnswerInv(c) /\ known \subseteq Handles
    BY DEF IInv, TableInv
  <1>2. made[c] \in Seq(Handles)
    <2>1. <<>> \in Seq(Handles)
      OBVIOUS
    <2>2. pc[c] = "link" => made[c] \in Seq(Handles)
      BY <1>1 DEF RequestInv, Partial, Handles
    <2> QED
      BY <1>1, <2>1, <2>2 DEF RequestInv
  <1> QED
    BY <1>1, <1>2 DEF RequestInv, StreamInv, AnswerInv

\* A step of one client keeps them.
LEMMA ClientTypesKept ==
  ASSUME ClientTypes, IInv', NEW c \in Clients, ClientStep(c), Values(c)'
  PROVE  ClientTypes'
  <1>1. PICK H : H = Handles'
    OBVIOUS
  <1>2. \A u \in Clients :
           /\ dir'[u] \in H /\ want'[u] \in Nodes \cup {NoNode}
           /\ made'[u] \in Seq(H) /\ seen'[u] \in Seq(Nodes) /\ got'[u] \in H \cup {0}
    <2>1. IInv' => InvTypes'
      BY InvHasTypes, PTL
    <2> QED
      BY <1>1, <2>1 DEF InvTypes
  <1>3. dir' \in [Clients -> H] /\ want' \in [Clients -> Nodes \cup {NoNode}]
    <2>1. PICK S, T : S = Handles /\ T = Nodes \cup {NoNode}
      OBVIOUS
    <2>2. /\ dir \in [Clients -> S] /\ Sets(dir, dir', c)
          /\ want \in [Clients -> T] /\ Sets(want, want', c)
      BY <2>1 DEF ClientTypes, ClientStep
    <2>3. \A u \in Clients : dir'[u] \in H /\ want'[u] \in T
      BY <1>2, <2>1
    <2>4. dir' \in [Clients -> H]
      BY <2>2, <2>3, SetsType
    <2>5. want' \in [Clients -> T]
      BY <2>2, <2>3, SetsType
    <2> QED
      BY <2>1, <2>4, <2>5
  <1>4. made' \in [Clients -> Seq(H)]
    <2>1. made \in [Clients -> Seq(Handles)] /\ Sets(made, made', c)
      BY DEF ClientTypes, ClientStep
    <2>2. \A u \in Clients : made'[u] \in Seq(H)
      BY <1>2
    <2> QED
      BY <2>1, <2>2, SetsType
  <1>9. seen' \in [Clients -> Seq(Nodes)]
    <2>1. seen \in [Clients -> Seq(Nodes)] /\ Sets(seen, seen', c)
      BY DEF ClientTypes, ClientStep
    <2>2. \A u \in Clients : seen'[u] \in Seq(Nodes)
      BY <1>2
    <2> QED
      BY <2>1, <2>2, SetsType
  <1>5. got' \in [Clients -> H \cup {0}]
    <2>2. PICK S, T : S = Handles \cup {0} /\ T = H \cup {0}
      OBVIOUS
    <2>1. got \in [Clients -> S] /\ Sets(got, got', c)
      BY <2>2 DEF ClientTypes, ClientStep
    <2>3. \A u \in Clients : got'[u] \in T
      BY <1>2, <2>2
    <2>4. got' \in [Clients -> T]
      BY <2>1, <2>3, SetsType
    <2> QED
      BY <2>2, <2>4
  <1>6. ASSUME NEW u \in Clients
        PROVE  Values(u)'
    <2>1. CASE u = c
      BY <2>1
    <2>2. CASE u # c
      <3>1. /\ pc'[u] = pc[u] /\ offset'[u] = offset[u]
            /\ stable'[u] = stable[u] /\ purged'[u] = purged[u]
        BY <2>2 DEF ClientTypes, ClientStep, Sets
      <3> QED
        BY <3>1 DEF ClientTypes, Values
    <2> QED
      BY <2>1, <2>2
  <1>7. pc' \in [Clients -> Labels] /\ offset' \in [Clients -> Nat]
    BY <1>6, SetsType DEF ClientTypes, ClientStep, Values
  <1>8. stable' \in [Clients -> SUBSET RowNodes] /\ purged' \in [Clients -> BOOLEAN]
    <2>1. PICK T, B : T = SUBSET RowNodes /\ B = BOOLEAN
      OBVIOUS
    <2>2. /\ stable \in [Clients -> T] /\ Sets(stable, stable', c)
          /\ purged \in [Clients -> B] /\ Sets(purged, purged', c)
      BY <2>1 DEF ClientTypes, ClientStep
    <2>3. \A u \in Clients : stable'[u] \in T /\ purged'[u] \in B
      BY <1>6, <2>1 DEF Values
    <2> QED
      BY <2>1, <2>2, <2>3, SetsType
  <1> QED
    BY <1>1, <1>3, <1>4, <1>5, <1>7, <1>8, <1>9 DEF ClientTypes

\* A step that leaves the history variables alone keeps the values typed.
LEMMA ValuesKept ==
  ASSUME ClientTypes, IInv', NEW c \in Clients, NEW e \in Labels, pc' = [pc EXCEPT ![c] = e],
         UNCHANGED <<stable, purged>>, offset' = offset \/ want'[c] = NoNode
  PROVE  Values(c)'
  <1>1. pc'[c] \in Labels /\ stable'[c] \in SUBSET RowNodes /\ purged'[c] \in BOOLEAN
    BY DEF ClientTypes
  <1>2. offset'[c] \in Nat
    <2>1. CASE offset' = offset
      BY <2>1 DEF ClientTypes
    <2>2. CASE want'[c] = NoNode
      <3>1. StreamInv(c)'
        BY DEF IInv
      <3>2. offset'[c] = Len(seen'[c]) /\ seen'[c] \in Seq(Nodes)
        BY <2>2, <3>1 DEF StreamInv
      <3> QED
        BY <3>2
    <2> QED
      BY <2>1, <2>2
  <1> QED
    BY <1>1, <1>2 DEF Values

\* What each action of a client does to its variables.
LEMMA RequestSteps ==
  ASSUME ClientTypes, IInv, IInv', NEW c \in Clients,
         \/ \E i \in Inodes : Opendir(c, i)
         \/ \E i \in Inodes, n \in Names : Lookup(c, i, n)
         \/ Step(c)
  PROVE  ClientStep(c) /\ Values(c)'
  <1>1. ASSUME NEW i \in Inodes, Opendir(c, i)
        PROVE  ClientStep(c) /\ Values(c)'
    <2>1. ClientStep(c)
      BY <1>1 DEF Opendir, ClientStep, Sets
    <2>2. /\ pc'[c] = "open" /\ offset'[c] \in Nat /\ stable'[c] \in SUBSET RowNodes
          /\ purged'[c] \in BOOLEAN
      BY <1>1 DEF Opendir, ClientTypes
    <2> QED
      BY <2>1, <2>2 DEF Values, Labels
  <1>2. ASSUME NEW i, NEW name, GetEntries(c, i, name), name = NoNode \/ want'[c] = name,
               UNCHANGED <<stable, purged>>, Sets(dir, dir', c), Sets(want, want', c),
               name = NoNode => want'[c] = NoNode
        PROVE  ClientStep(c) /\ Values(c)'
    <2>1. \/ Use(c, CacheGet(i), name)
          \/ Await(c, "metadata", <<>>)
      BY <1>2 DEF GetEntries
    <2>2. "metadata" \in Labels
      BY DEF Labels
    <2>3. /\ ClientStep(c) /\ (name # NoNode => offset' = offset)
          /\ \E e \in Labels : pc' = [pc EXCEPT ![c] = e]
      BY <1>2, <2>1, <2>2, UseSteps, AwaitSteps
    <2> QED
      BY <1>2, <2>3, ValuesKept
  <1>3. ASSUME NEW i \in Inodes, NEW n \in Names, Lookup(c, i, n)
        PROVE  ClientStep(c) /\ Values(c)'
    <2>1. /\ Sets(dir, dir', c) /\ Sets(want, want', c) /\ want'[c] = n
          /\ UNCHANGED <<stable, purged>>
      BY <1>3 DEF Lookup, Sets, ClientTypes
    <2>2. n # NoNode
      BY BoundAssumption, TreeAssumption
    <2>3. CASE GetEntries(c, i, n)
      BY <1>2, <2>1, <2>2, <2>3
    <2>4. CASE Await(c, "metadata", <<>>)
      <3>1. "metadata" \in Labels
        BY DEF Labels
      <3>2. /\ ClientStep(c) /\ offset' = offset
            /\ \E e \in Labels : pc' = [pc EXCEPT ![c] = e]
        BY <2>1, <2>4, <3>1, AwaitSteps
      <3> QED
        BY <2>1, <3>2, ValuesKept
    <2> QED
      BY <1>3, <2>3, <2>4 DEF Lookup
  <1>4. CASE Readdir(c)
    <2>1. pc[c] = "open" /\ GetEntries(c, dir[c], NoNode) /\ UNCHANGED <<dir, want, stable, purged>>
      BY <1>4 DEF Readdir
    <2>2. want'[c] = NoNode
      BY <2>1 DEF IInv, StreamInv
    <2> QED
      BY <1>2, <2>1, <2>2 DEF Sets
  <1>5. CASE MountArtifact(c)
    <2>1. ClientStep(c)
      BY <1>5 DEF MountArtifact, ClientStep, Sets
    <2>2. pc' = [pc EXCEPT ![c] = "answered"] /\ UNCHANGED <<offset, stable, purged>>
      BY <1>5 DEF MountArtifact
    <2>3. "answered" \in Labels
      BY DEF Labels
    <2> QED
      BY <2>1, <2>2, <2>3, ValuesKept
  <1>6. CASE Compute(c)
    <2>1. PICK children :
              /\ UNCHANGED <<dir, want, stable, purged>>
              /\ Await(c, "link", children) \/ Use(c, children, want[c])
      BY <1>6 DEF Compute
    <2>2. "link" \in Labels /\ Sets(dir, dir', c) /\ Sets(want, want', c)
      BY <2>1 DEF Labels, Sets
    <2>3. /\ ClientStep(c)
          /\ offset' = offset \/ want'[c] = NoNode
          /\ \E e \in Labels : pc' = [pc EXCEPT ![c] = e]
      BY <2>1, <2>2, UseSteps, AwaitSteps
    <2>4. PICK e \in Labels : pc' = [pc EXCEPT ![c] = e]
      BY <2>3
    <2>5. UNCHANGED <<stable, purged>> /\ (offset' = offset \/ want'[c] = NoNode)
      BY <2>1, <2>3
    <2>6. Values(c)'
      BY ONLY ClientTypes, IInv', c \in Clients, <2>4, <2>5, ValuesKept
    <2> QED
      BY <2>3, <2>6
  <1>7. CASE Fail(c)
    <2>1. ClientStep(c)
      BY <1>7 DEF Fail, ClientStep, Sets
    <2>2. pc' = [pc EXCEPT ![c] = "error"] /\ UNCHANGED <<offset, stable, purged>>
      BY <1>7 DEF Fail
    <2>3. "error" \in Labels
      BY DEF Labels
    <2> QED
      BY <2>1, <2>2, <2>3, ValuesKept
  <1>8. CASE Done(c)
    <2>1. ClientStep(c)
      BY <1>8 DEF Done, ClientStep, Sets
    <2>2. pc'[c] = "idle" /\ offset'[c] = 0 /\ stable'[c] = {} /\ purged'[c] = FALSE
      BY <1>8 DEF Done, ClientTypes
    <2>3. stable'[c] \in SUBSET RowNodes /\ pc'[c] \in Labels /\ offset'[c] \in Nat
      BY <2>2 DEF Labels
    <2>4. purged'[c] \in BOOLEAN
      BY <1>8 DEF Done, ClientTypes
    <2> QED
      BY <2>1, <2>3, <2>4 DEF Values
  <1> QED
    BY <1>1, <1>3, <1>4, <1>5, <1>6, <1>7, <1>8 DEF Step


\* A computed listing is stored in the cache.
Stored(i, value) ==
    /\ nodeOf[i] \in Dirs \ Unstored /\ CacheSet(i, value)
    /\ \E S : value \in Seq(S)
    /\ nodeOf[i] \notin Live => Len(value) = Len(Fixed(nodeOf[i]))

\* A step keeps the listings as they are, or stores one that was computed.
LEMMA ListingsChange ==
  ASSUME IInv, [Next]_vars
  PROVE  \/ UNCHANGED listings
         \/ \E i \in Handles : \E value : Stored(i, value)
  <1>1. ASSUME NEW c \in Clients, Compute(c)
        PROVE  \/ UNCHANGED listings
               \/ \E i \in Handles : \E value : Stored(i, value)
    <2>1. PICK i \in known, d \in Dirs, listing \in Seq(Nodes), table \in Seq(Nodes) :
            \E entries \in Seq(1 .. Len(table)), last \in Nat : \E new, children :
               ComputesTo(c, i, d, listing, table, entries, last, new, children)
      BY <1>1, ComputeDoes
    <2>2. PICK entries \in Seq(1 .. Len(table)), last \in Nat :
            \E new, children :
               ComputesTo(c, i, d, listing, table, entries, last, new, children)
      BY <2>1
    <2>3. PICK new, children :
            ComputesTo(c, i, d, listing, table, entries, last, new, children)
      BY <2>2
    <2>8. d = nodeOf[i] /\ listing = Listing(d)
      BY <2>3 DEF ComputesTo
    <2>9. UNCHANGED listings \/ (last = Len(listing) /\ Store(i, children))
      BY <2>3, Zenon DEF ComputesTo
    <2>5. children \in Seq(1 .. Len(new)) /\ Len(children) = last
      BY <2>3 DEF ComputesTo, Extended
    <2>6. CASE UNCHANGED listings
      BY <2>6
    <2>7. CASE last = Len(listing) /\ Store(i, children) /\ ~UNCHANGED listings
      <3>1. i \in Handles
        BY DEF IInv, TableInv
      <3>2. d \notin Unstored /\ CacheSet(i, children)
        BY <2>7, <2>8 DEF Store
      <3>3. d \notin Live => Len(children) = Len(Fixed(d))
        BY <2>5, <2>7, <2>8, ListingType
      <3> QED
        BY <2>5, <2>8, <3>1, <3>2, <3>3 DEF Stored
    <2> QED
      BY <2>6, <2>7, <2>9
  <1>2. ASSUME NEW c \in Clients, NEW i \in Inodes, Opendir(c, i)
        PROVE  UNCHANGED listings
    BY <1>2 DEF Opendir
  <1>3. ASSUME NEW c \in Clients, NEW i \in Inodes, NEW n \in Names, Lookup(c, i, n)
        PROVE  UNCHANGED listings
    BY <1>3 DEF Lookup
  <1>4. ASSUME NEW c \in Clients,
               Readdir(c) \/ MountArtifact(c) \/ Fail(c) \/ Done(c)
        PROVE  UNCHANGED listings
    BY <1>4 DEF Readdir, MountArtifact, Fail, Done
  <1>5. ASSUME NEW n \in RowNodes, Remember(n)
        PROVE  UNCHANGED listings
    BY <1>5 DEF Remember
  <1>6. ASSUME NEW i \in Inodes, NEW n \in RowNodes, Unlink(i, n)
        PROVE  UNCHANGED listings
    BY <1>6 DEF Unlink
  <1>7. CASE UNCHANGED vars
    BY <1>7 DEF vars, listings
  <1>8. CASE Next
    BY <1>1, <1>2, <1>3, <1>4, <1>5, <1>6, <1>8 DEF Next, Step
  <1> QED
    BY <1>7, <1>8

\* The listings have sizes.
LEMMA HeldSizes ==
  ASSUME ListingsInv
  PROVE  Held
  <1> SUFFICES ASSUME NEW i \in DOMAIN held PROVE sizeof(held[i]) \in Nat
    BY DEF Held
  <1>1. held[i] \in Seq(1 .. Len(nodeOf))
    BY DEF ListingsInv, Whole, Partial
  <1>2. Len(held[i]) \in Nat
    BY <1>1
  <1> QED
    BY <1>2 DEF sizeof

\* The cache goes on to be one, and to count what it holds where a directory it
\* keeps lists the same each time.
LEMMA CacheKept ==
  ASSUME IInv, CacheTypeOK, [Next]_vars
  PROVE  /\ CacheTypeOK'
         /\ Live \subseteq Unstored /\ RamAccounted /\ WithinMaxRam
              => RamAccounted' /\ WithinMaxRam'
  <1>1. CASE UNCHANGED listings
    BY <1>1 DEF listings, CacheTypeOK, RamAccounted, WithinMaxRam
  <1>2. CASE \E i \in Handles : \E value : Stored(i, value)
    <2>1. PICK i \in Handles : \E value : Stored(i, value)
      BY <1>2
    <2>9. PICK value : Stored(i, value)
      BY <2>1
    <2>2. /\ nodeOf[i] \in Dirs \ Unstored /\ CacheSet(i, value)
          /\ \E S : value \in Seq(S)
          /\ nodeOf[i] \notin Live => Len(value) = Len(Fixed(nodeOf[i]))
      BY <2>9 DEF Stored
    <2>3. Held /\ ListingsInv
      BY HeldSizes DEF IInv
    <2>4. PICK key \in Nat \ {0} : key = i
      BY DEF Handles
    <2>5. sizeof(value) \in Nat
      <3>1. Len(value) \in Nat
        BY <2>2
      <3> QED
        BY <3>1 DEF sizeof
    <2>6. ASSUME Live \subseteq Unstored, key \in DOMAIN held
          PROVE  sizeof(held[key]) = sizeof(value)
      <3>1. Len(held[key]) = Len(Fixed(nodeOf[i])) /\ Len(value) = Len(Fixed(nodeOf[i]))
        BY <2>2, <2>3, <2>4, <2>6 DEF ListingsInv, Whole
      <3> QED
        BY <3>1 DEF sizeof
    <2>7. CacheSet(key, value)
      BY <2>2, <2>4
    <2>8. /\ CacheTypeOK'
          /\ RamAccounted /\ (key \in DOMAIN held => sizeof(held[key]) = sizeof(value))
               => RamAccounted' /\ WithinMaxRam'
      BY ONLY CacheTypeOK, <2>3, <2>5, <2>7, key \in Nat \ {0}, CacheSetKeeps
    <2> QED
      BY <2>6, <2>8
  <1> QED
    BY <1>1, <1>2, ListingsChange


\* The clients' variables keep their types.
LEMMA ClientsKept ==
  ASSUME ClientTypes, IInv, [Next]_vars
  PROVE  ClientTypes'
  <1>1. IInv' /\ Grown
    BY NextKeeps
  <1>2. ASSUME NEW c \in Clients,
               \/ \E i \in Inodes : Opendir(c, i)
               \/ \E i \in Inodes, n \in Names : Lookup(c, i, n)
               \/ Step(c)
        PROVE  ClientTypes'
    <2>1. ClientStep(c) /\ Values(c)'
      BY <1>1, <1>2, RequestSteps
    <2> QED
      BY ONLY <1>1, <2>1, ClientTypes, c \in Clients, ClientTypesKept
  <1>3. ASSUME UNCHANGED <<nodeOf, client>>
        PROVE  ClientTypes'
    BY <1>3 DEF client, ClientTypes, Handles
  <1>4. ASSUME NEW i \in Inodes, NEW n \in RowNodes, Unlink(i, n)
        PROVE  ClientTypes'
    <2>1. /\ UNCHANGED <<nodeOf, pc, dir, want, offset, made, seen, got>>
          /\ stable' = [c \in Clients |-> stable[c] \ {n}]
          /\ purged' = [c \in Clients |-> purged[c] \/ pc[c] # "idle"]
      BY <1>4 DEF Unlink
    <2>2. stable' \in [Clients -> SUBSET RowNodes]
      BY <2>1 DEF ClientTypes
    <2>3. purged' \in [Clients -> BOOLEAN]
      <3>1. \A c \in Clients : (purged[c] \/ pc[c] # "idle") \in BOOLEAN
        OBVIOUS
      <3> QED
        BY <2>1, <3>1
    <2> QED
      BY <2>1, <2>2, <2>3 DEF ClientTypes, Handles
  <1>5. CASE UNCHANGED vars
    BY <1>3, <1>5 DEF vars
  <1>6. ASSUME NEW n \in RowNodes, Remember(n)
        PROVE  ClientTypes'
    BY <1>3, <1>6 DEF Remember
  <1>7. CASE Next
    BY <1>2, <1>4, <1>6, <1>7 DEF Next
  <1> QED
    BY <1>5, <1>7

\* Rows are those of artifacts that some directory lists.
LEMMA RowsKept ==
  ASSUME rows \subseteq RowNodes, IInv, [Next]_vars
  PROVE  rows' \subseteq RowNodes
  <1>1. ASSUME NEW c \in Clients, NEW i \in Inodes, Opendir(c, i)
        PROVE  rows' = rows
    BY <1>1 DEF Opendir
  <1>2. ASSUME NEW c \in Clients, NEW i \in Inodes, NEW n \in Names, Lookup(c, i, n)
        PROVE  rows' = rows
    BY <1>2 DEF Lookup
  <1>3. ASSUME NEW c \in Clients, Step(c)
        PROVE  rows' = rows
    BY <1>3 DEF Step, Readdir, MountArtifact, Compute, Fail, Done
  <1>4. ASSUME NEW n \in RowNodes, Remember(n)
        PROVE  rows' \subseteq RowNodes
    BY <1>4 DEF Remember
  <1>5. ASSUME NEW i \in Inodes, NEW n \in RowNodes, Unlink(i, n)
        PROVE  rows' \subseteq RowNodes
    BY <1>5 DEF Unlink
  <1>6. CASE UNCHANGED vars
    BY <1>6 DEF vars
  <1>7. CASE Next
    BY <1>1, <1>2, <1>3, <1>4, <1>5, <1>7 DEF Next
  <1> QED
    BY <1>6, <1>7

\* TypeOK, by its parts.
Types ==
    /\ nodeOf \in Seq(Nodes) /\ known \subseteq Handles
    /\ CacheTypeOK /\ rows \subseteq RowNodes /\ ClientTypes

LEMMA TypeParts == TypeOK <=> Types
  BY DEF TypeOK, Types, ClientTypes, Labels

\* The variables of the virtual tree hold what their names say: inodes that are
\* allocated (Fuse._alloc_inode), a cache whose keys are directories' inodes, each
\* of them once, and requests at one of their awaits.
THEOREM TreeTypes == Spec => []TypeOK
  <1>1. Init => TypeOK
    <2> SUFFICES ASSUME Init PROVE TypeOK
      OBVIOUS
    <2>1. nodeOf \in Seq(Nodes) /\ known \subseteq Handles
      BY InitHolds DEF IInv, TableInv
    <2>2. CacheTypeOK
      <3>1. <<>> \in Seq(Nat \ {0}) /\ DOMAIN <<>> = {} /\ ToSet(<<>>) = {}
        BY DEF ToSet
      <3> QED
        BY <3>1 DEF Init, CacheInit, CacheTypeOK, IsInjective
    <2>3. ClientTypes
      <3>1. 1 \in Handles /\ <<>> \in Seq(Handles) /\ <<>> \in Seq(Nodes)
        BY DEF Init, Handles
      <3>2. /\ pc \in [Clients -> Labels] /\ purged \in [Clients -> BOOLEAN]
        BY DEF Init, Labels
      <3> QED
        BY <3>1, <3>2 DEF Init, ClientTypes
    <2> QED
      BY <2>1, <2>2, <2>3, TypeParts DEF Init, Types
  <1>2. IInv /\ TypeOK /\ [Next]_vars => TypeOK'
    <2> SUFFICES ASSUME IInv, TypeOK, [Next]_vars PROVE TypeOK'
      OBVIOUS
    <2>1. IInv'
      BY NextKeeps
    <2>2. nodeOf' \in Seq(Nodes) /\ known' \subseteq Handles'
      BY <2>1 DEF IInv, TableInv
    <2>3. CacheTypeOK /\ rows \subseteq RowNodes /\ ClientTypes
      BY TypeParts DEF Types
    <2>4. CacheTypeOK' /\ rows' \subseteq RowNodes /\ ClientTypes'
      BY <2>3, CacheKept, RowsKept, ClientsKept
    <2>5. Types'
      BY <2>2, <2>4 DEF Types
    <2> QED
      BY <2>5, TypeParts, PTL
  <1> QED
    BY <1>1, <1>2, TreeInvariance, PTL DEF Spec

\* Both of the cache's properties: the second follows at each eviction from the first.
LEMMA SizesInvariance ==
  ASSUME Live \subseteq Unstored
  PROVE  Spec => [](RamAccounted /\ WithinMaxRam)
  <1>1. Init => RamAccounted /\ WithinMaxRam
    <2> SUFFICES ASSUME Init PROVE RamAccounted /\ WithinMaxRam
      OBVIOUS
    <2>1. order = <<>> /\ used = 0
      BY DEF Init, CacheInit
    <2>2. <<>> \in Seq(Nat) /\ Len(<<>>) = 0
      OBVIOUS
    <2>3. Sized(<<>>, held)
      BY <2>2 DEF Sized
    <2>4. SizeSum(<<>>, held) = 0
      BY <2>2, <2>3, SizesStep DEF SizeSum
    <2> QED
      BY <2>1, <2>4, BoundAssumption DEF RamAccounted, WithinMaxRam
  <1>2. /\ IInv /\ TypeOK /\ RamAccounted /\ WithinMaxRam /\ [Next]_vars
           => RamAccounted' /\ WithinMaxRam'
    BY CacheKept, TypeParts DEF Types
  <1> QED
    BY <1>1, <1>2, TreeInvariance, TreeTypes, PTL DEF Spec

\* used_ram is the size of the listings that the cache holds, where the directories
\* that DirEntryCache.set keeps list the same each time they are computed:
\* __setitem__ counts a listing once, whatever replaces it, and __delitem__ takes
\* off the size of what is there.
THEOREM SizesAreCounted ==
  ASSUME Live \subseteq Unstored
  PROVE  Spec => []RamAccounted
  BY SizesInvariance, PTL

\* So the listings held fit in maxram.
THEOREM ListingsFit ==
  ASSUME Live \subseteq Unstored
  PROVE  Spec => []WithinMaxRam
  BY SizesInvariance, PTL

-----------------------------------------------------------------------------
(* Streams over cache/.                                                    *)

\* What a shard of cache/ lists now, and after a step.
LEMMA ShardListing ==
  ASSUME NEW d \in Unstored
  PROVE  /\ d \in Dirs /\ d \in Live /\ Children[d] \in Seq(Nodes)
         /\ Listing(d) = Selected(Children[d], rows)
  BY TreeAssumption DEF Listing

\* AheadInv, now and after a step.
LEMMA AheadMeans ==
  ASSUME NEW c
  PROVE  AheadInv(c) <=>
            (want[c] = NoNode /\ pc[c] \in {"open", "metadata"}
               /\ nodeOf[dir[c]] \in Unstored /\ ~purged[c]
             => Ahead(stable[c], seen[c],
                      Selected(Children[nodeOf[dir[c]]], rows), offset[c]))
  BY ShardListing DEF AheadInv

LEMMA AheadNext ==
  ASSUME NEW c
  PROVE  AheadInv(c)' <=>
            (want'[c] = NoNode /\ pc'[c] \in {"open", "metadata"}
               /\ nodeOf'[dir'[c]] \in Unstored /\ ~purged'[c]
             => Ahead(stable'[c], seen'[c],
                      Selected(Children[nodeOf'[dir'[c]]], rows'), offset'[c]))
  BY TreeAssumption DEF AheadInv, Listing


\* What a stream over a shard that ended has returned.
EndInv(c) ==
    pc[c] = "end" /\ nodeOf[dir[c]] \in Unstored /\ ~purged[c] =>
        stable[c] \subseteq ToSet(seen[c])

ShardStream(c) == AheadInv(c) /\ EndInv(c)

\* A client that does nothing, where no row comes or goes.
LEMMA StreamUntouched ==
  ASSUME IInv, Grown, rows' = rows, NEW u \in Clients, Stays(u),
         stable'[u] = stable[u], purged'[u] = purged[u], ShardStream(u)
  PROVE  ShardStream(u)'
  <1>1. nodeOf'[dir'[u]] = nodeOf[dir[u]]
    <2>1. dir[u] \in Handles /\ dir'[u] = dir[u]
      BY DEF IInv, TableInv, RequestInv, Stays
    <2> QED
      BY <2>1 DEF Grown
  <1>2. /\ pc'[u] = pc[u] /\ want'[u] = want[u] /\ offset'[u] = offset[u]
        /\ seen'[u] = seen[u]
    BY DEF Stays
  <1>3. AheadInv(u)'
    BY <1>1, <1>2, AheadMeans, AheadNext DEF ShardStream
  <1>4. EndInv(u)'
    BY <1>1, <1>2 DEF ShardStream, EndInv
  <1> QED
    BY <1>3, <1>4 DEF ShardStream

\* A client that does something else than to go on with a stream.
LEMMA StreamOver ==
  ASSUME IInv', NEW c \in Clients,
         want'[c] # NoNode \/ pc'[c] \in {"idle", "answered", "error", "link"}
  PROVE  ShardStream(c)'
  <1>1. StreamInv(c)'
    BY DEF IInv
  <1>2. AheadInv(c)' /\ EndInv(c)'
    BY <1>1, AheadNext DEF StreamInv, EndInv
  <1> QED
    BY <1>2 DEF ShardStream

\* A block moves the rows to come to those returned, and at the end of the
\* listing there are none.
LEMMA BlockAhead ==
  ASSUME NEW names \in Seq(Nodes), NEW listing \in Seq(Nodes), NEW wanted, NEW o \in Nat,
         NEW last \in Nat, NEW new \in Seq(Nodes), last <= Len(listing),
         Len(new) = IF o < last THEN last - o ELSE 0,
         \A k \in 1 .. Len(new) : new[k] = listing[o + k],
         Ahead(wanted, names, listing, o)
  PROVE  /\ Ahead(wanted, names \o new, listing, o + Len(new))
         /\ o >= Len(listing) => wanted \subseteq ToSet(names \o new)
  <1>1. PICK a \in Nat, b \in Nat, N \in Nat :
            a = Len(names) /\ b = Len(new) /\ N = Len(listing)
    <2>1. Len(names) \in Nat /\ Len(new) \in Nat /\ Len(listing) \in Nat
      OBVIOUS
    <2> QED
      BY ONLY <2>1
  <1>2. PICK all \in Seq(Nodes) :
            /\ all = names \o new /\ Len(all) = a + b
            /\ \A k \in 1 .. a : all[k] = names[k]
            /\ \A k \in 1 .. b : all[a + k] = new[k]
    <2> DEFINE r == names \o new
    <2>1. r \in Seq(Nodes) /\ Len(r) = a + b
      BY ONLY <1>1, names \in Seq(Nodes), new \in Seq(Nodes)
    <2>2. \A k \in 1 .. a : r[k] = names[k]
      BY ONLY <1>1, names \in Seq(Nodes), new \in Seq(Nodes)
    <2>3. ASSUME NEW k \in 1 .. b
          PROVE  r[a + k] = new[k]
      BY ONLY <1>1, a \in Nat, b \in Nat, k \in 1 .. b,
              names \in Seq(Nodes), new \in Seq(Nodes)
    <2> HIDE DEF r
    <2>4. \E all \in Seq(Nodes) :
             /\ all = r /\ Len(all) = a + b
             /\ \A k \in 1 .. a : all[k] = names[k]
             /\ \A k \in 1 .. b : all[a + k] = new[k]
      BY ONLY <2>1, <2>2, <2>3, Zenon
    <2> QED
      BY ONLY <2>4, Zenon DEF r
  <1>3. \A k \in 1 .. a + b : all[k] \in ToSet(all)
    BY <1>2, Places
  <1>4. \A n \in ToSet(names) : n \in ToSet(all)
    <2> SUFFICES ASSUME NEW n \in ToSet(names) PROVE n \in ToSet(all)
      OBVIOUS
    <2>1. PICK k \in 1 .. a : n = names[k]
      BY <1>1, Places
    <2>2. k \in 1 .. a + b
      OBVIOUS
    <2> QED
      BY <1>2, <1>3, <2>1, <2>2
  <1>5. ASSUME NEW n, NEW k \in o + 1 .. N, listing[k] = n, k <= o + b
        PROVE  n \in ToSet(all)
    <2>1. PICK j \in 1 .. b : o + j = k
      <3>1. k - o \in 1 .. b /\ o + (k - o) = k
        BY <1>5
      <3> QED
        BY <3>1
    <2>2. a + j \in 1 .. a + b
      OBVIOUS
    <2>3. new[j] = listing[k]
      BY <1>1, <2>1
    <2> QED
      BY <1>2, <1>3, <1>5, <2>1, <2>2, <2>3
  <1>6. Ahead(wanted, all, listing, o + b)
    <2> SUFFICES ASSUME NEW n \in wanted, n \notin ToSet(all)
                 PROVE  \E k \in o + b + 1 .. N : listing[k] = n
      BY <1>1 DEF Ahead
    <2>1. PICK k \in o + 1 .. N : listing[k] = n
      BY <1>1, <1>4 DEF Ahead
    <2>2. ~(k <= o + b)
      BY <1>5, <2>1
    <2>3. k \in o + b + 1 .. N
      BY <2>2
    <2> QED
      BY <2>1, <2>3
  <1>7. o >= N => wanted \subseteq ToSet(all)
    <2> SUFFICES ASSUME o >= N, NEW n \in wanted PROVE n \in ToSet(all)
      OBVIOUS
    <2>1. o + 1 .. N = {}
      OBVIOUS
    <2> QED
      BY <1>1, <1>4, <2>1 DEF Ahead
  <1> QED
    BY <1>1, <1>2, <1>6, <1>7


\* The computation of a shard, which a stream awaits: its next block is cut from
\* the rows there are then.
LEMMA ShardComputed ==
  ASSUME IInv, IInv', ClientTypes, NEW c \in Clients, Compute(c), ShardStream(c),
         want[c] = NoNode, nodeOf[dir[c]] \in Unstored
  PROVE  ShardStream(c)'
  <1>1. PICK i \in known, d \in Dirs, listing \in Seq(Nodes), table \in Seq(Nodes) :
            \E entries \in Seq(1 .. Len(table)), last \in Nat : \E new, children :
               ComputesTo(c, i, d, listing, table, entries, last, new, children)
    BY ComputeDoes
  <1>2. PICK entries \in Seq(1 .. Len(table)), last \in Nat :
            \E new, children :
               ComputesTo(c, i, d, listing, table, entries, last, new, children)
    BY <1>1
  <1>3. PICK new, children :
            ComputesTo(c, i, d, listing, table, entries, last, new, children)
    BY <1>2
  <1>4. /\ i = dir[c] /\ d = nodeOf[i] /\ listing = Listing(d) /\ table = nodeOf
        /\ pc[c] \in {"metadata", "link"} /\ nodeOf' = new
        /\ UNCHANGED <<rows, dir, want, stable, purged>>
    BY <1>3 DEF ComputesTo
  <1>5. d \in Unstored /\ d \in Live /\ listing = Selected(Children[d], rows)
    BY <1>4, ShardListing
  <1>6. pc[c] = "metadata" /\ Len(entries) = 0
    BY <1>3, <1>4, <1>5 DEF ComputesTo
  <1>7. ~(last < Len(listing))
    BY <1>3, <1>5 DEF ComputesTo
  <1>8. last = Len(listing) /\ Use(c, children, want[c])
    BY <1>3, <1>7, Zenon DEF ComputesTo
  <1>9. Serve(c, children)
    BY <1>8 DEF Use
  <1>10. /\ children \in Seq(1 .. Len(new)) /\ Len(children) = last /\ new \in Seq(Nodes)
         /\ \A i2 \in 1 .. Len(table) : new[i2] = table[i2]
         /\ \A k \in 1 .. last : new[children[k]] = listing[k]
    <2>1. /\ children \in Seq(1 .. Len(new)) /\ Len(children) = last /\ new \in Seq(Nodes)
          /\ \A i2 \in 1 .. Len(table) : new[i2] = table[i2]
          /\ \A k \in Len(entries) + 1 .. last : new[children[k]] = listing[k]
      BY <1>3, Zenon DEF ComputesTo, Extended
    <2>2. Len(entries) + 1 .. last = 1 .. last
      BY <1>6
    <2> QED
      BY ONLY <2>1, <2>2, Zenon
  <1>11. PICK o \in Nat, names \in Seq(Nodes) : o = offset[c] /\ names = seen[c]
    <2>1. offset[c] \in Nat /\ seen[c] \in Seq(Nodes)
      BY DEF ClientTypes
    <2> QED
      BY <2>1
  <1>12. PICK n \in 1 .. Block :
            /\ seen' = [seen EXCEPT ![c] =
                 @ \o [k \in 1 .. Len(SubSeq(children, offset[c] + 1,
                                            Min({Len(children), offset[c] + n}))) |->
                         nodeOf'[SubSeq(children, offset[c] + 1,
                                    Min({Len(children), offset[c] + n}))[k]]]]
            /\ offset' = [offset EXCEPT ![c] =
                 @ + Len(SubSeq(children, offset[c] + 1,
                             Min({Len(children), offset[c] + n})))]
    BY <1>9 DEF Serve
  <1>13. PICK lst \in Nat : lst = Min({Len(children), offset[c] + n}) /\ lst <= Len(listing)
    <2>1. n \in Nat /\ n > 0
      BY BoundAssumption
    <2>2. Min({last, o + n}) \in Nat /\ Min({last, o + n}) <= last
      BY ONLY <2>1, last \in Nat, o \in Nat, BlockEnd
    <2> QED
      BY <1>8, <1>10, <1>11, <2>2
  <1>14. PICK sent \in Seq(1 .. Len(new)) :
            /\ sent = SubSeq(children, o + 1, lst)
            /\ Len(sent) = IF o < lst THEN lst - o ELSE 0
            /\ \A k \in 1 .. lst - o : sent[k] = children[o + k]
    <2>1. PICK H : H = 1 .. Len(new)
      OBVIOUS
    <2>2. children \in Seq(H) /\ lst <= Len(children)
      BY <1>8, <1>10, <1>13, <2>1
    <2>3. /\ SubSeq(children, o + 1, lst) \in Seq(H)
          /\ Len(SubSeq(children, o + 1, lst)) = IF o < lst THEN lst - o ELSE 0
          /\ \A k \in 1 .. lst - o : SubSeq(children, o + 1, lst)[k] = children[o + k]
      BY ONLY <2>2, o \in Nat, lst \in Nat, WithinBounds, SMTT(30)
    <2> QED
      BY <2>1, <2>3
  <1>15. PICK next \in Seq(Nodes) :
            /\ next = [k \in 1 .. Len(sent) |-> nodeOf'[sent[k]]]
            /\ Len(next) = Len(sent)
            /\ \A k \in 1 .. Len(sent) : next[k] = listing[o + k]
    <2>1. PICK m \in Nat : m = Len(sent)
      OBVIOUS
    <2>2. \A k \in 1 .. m : new[sent[k]] \in Nodes
      <3>1. \A k \in 1 .. m : sent[k] \in 1 .. Len(new)
        BY <2>1
      <3>2. \A j \in 1 .. Len(new) : new[j] \in Nodes
        BY <1>10
      <3> QED
        BY <3>1, <3>2
    <2>3. PICK f \in [1 .. m -> Nodes] : f = [k \in 1 .. m |-> new[sent[k]]]
      BY <2>2
    <2>4. f \in Seq(Nodes) /\ Len(f) = m
      BY ONLY m \in Nat, f \in [1 .. m -> Nodes], FunctionIsSeq
    <2>5. ASSUME NEW k \in 1 .. m
          PROVE  f[k] = listing[o + k]
      <3>1. k \in 1 .. lst - o /\ o + k \in 1 .. last
        BY <1>8, <1>13, <1>14, <2>1
      <3>2. sent[k] = children[o + k] /\ new[children[o + k]] = listing[o + k]
        BY <1>10, <1>14, <3>1
      <3> QED
        BY <2>3, <3>2
    <2>6. f = [k \in 1 .. Len(sent) |-> nodeOf'[sent[k]]]
      BY <1>4, <2>1, <2>3
    <2> QED
      BY <2>1, <2>4, <2>5, <2>6
  <1>16. seen'[c] = names \o next /\ offset'[c] = o + Len(next)
    BY <1>11, <1>12, <1>13, <1>14, <1>15 DEF ClientTypes
  <1>17. pc'[c] = IF o >= Len(listing) THEN "end" ELSE "open"
    BY <1>8, <1>9, <1>10, <1>11 DEF Serve, ClientTypes
  <1>18. nodeOf'[dir'[c]] = d
    BY <1>4, <1>10 DEF IInv, TableInv, Handles
  <1>19. ~purged[c] => Ahead(stable[c], names, listing, o)
    BY <1>4, <1>5, <1>6, <1>11, AheadMeans DEF ShardStream
  <1>20. ASSUME ~purged[c]
         PROVE  /\ Ahead(stable[c], names \o next, listing, o + Len(next))
                /\ o >= Len(listing) => stable[c] \subseteq ToSet(names \o next)
    <2>1. /\ Ahead(stable[c], names, listing, o) /\ lst <= Len(listing)
          /\ Len(next) = IF o < lst THEN lst - o ELSE 0
          /\ \A k \in 1 .. Len(next) : next[k] = listing[o + k]
      BY <1>13, <1>14, <1>15, <1>19, <1>20
    <2> QED
      BY ONLY <2>1, o \in Nat, lst \in Nat, names \in Seq(Nodes), next \in Seq(Nodes),
              listing \in Seq(Nodes), BlockAhead
  <1>21. AheadInv(c)'
    BY <1>4, <1>5, <1>16, <1>18, <1>20, AheadNext
  <1>22. EndInv(c)'
    BY <1>4, <1>16, <1>17, <1>20 DEF EndInv
  <1> QED
    BY <1>21, <1>22 DEF ShardStream


\* The step of a client, for its own stream.
LEMMA OwnStream ==
  ASSUME IInv, IInv', Grown, ClientTypes, NoneKept, NEW c \in Clients, ShardStream(c),
         \/ \E i \in Inodes : Opendir(c, i)
         \/ \E i \in Inodes, n \in Names : Lookup(c, i, n)
         \/ Step(c)
  PROVE  ShardStream(c)'
  <1>1. ASSUME NEW i \in Inodes, Opendir(c, i)
        PROVE  ShardStream(c)'
    <2>1. /\ pc[c] = "idle" /\ pc'[c] = "open" /\ dir'[c] = i /\ UNCHANGED <<nodeOf, rows>>
          /\ stable'[c] = ToSet(Listing(nodeOf[i])) \cap RowNodes
          /\ offset'[c] = offset[c] /\ seen'[c] = seen[c] /\ nodeOf[i] \in Dirs
      BY <1>1 DEF Opendir, ClientTypes, KnownDir
    <2>2. want[c] = NoNode /\ seen[c] = <<>> /\ offset[c] = 0
      BY <2>1 DEF IInv, StreamInv
    <2>3. PICK s \in Seq(Nodes) : s = Listing(nodeOf[i])
      BY <2>1, ListingType
    <2>4. \A n \in ToSet(s) : \E k \in 0 + 1 .. Len(s) : s[k] = n
      BY Places
    <2>5. Ahead(stable'[c], seen'[c], s, offset'[c])
      BY <2>1, <2>2, <2>3, <2>4 DEF Ahead
    <2>6. nodeOf[i] \in Unstored => s = Selected(Children[nodeOf[i]], rows)
      BY <2>3, ShardListing
    <2>7. AheadInv(c)'
      BY <2>1, <2>5, <2>6, AheadNext
    <2>8. EndInv(c)'
      BY <2>1 DEF EndInv
    <2> QED
      BY <2>7, <2>8 DEF ShardStream
  <1>2. ASSUME NEW i \in Inodes, NEW n \in Names, Lookup(c, i, n)
        PROVE  ShardStream(c)'
    <2>1. want'[c] = n /\ n # NoNode
      BY <1>2, BoundAssumption, TreeAssumption DEF Lookup, ClientTypes
    <2> QED
      BY <2>1, StreamOver
  <1>3. CASE Readdir(c)
    <2>1. /\ pc[c] = "open" /\ UNCHANGED <<nodeOf, rows, dir, want, stable, purged>>
          /\ GetEntries(c, dir[c], NoNode)
      BY <1>3 DEF Readdir
    <2>2. CASE nodeOf[dir[c]] \in Unstored
      <3>1. CacheGet(dir[c]) = <<>>
        BY <2>2 DEF NoneKept, CacheGet
      <3>2. Await(c, "metadata", <<>>)
        BY <2>1, <3>1 DEF GetEntries
      <3>3. pc'[c] = "metadata" /\ seen' = seen /\ offset' = offset
        BY <3>2 DEF Await, ClientTypes
      <3>4. AheadInv(c)'
        BY <2>1, <3>3, AheadMeans, AheadNext DEF ShardStream
      <3>5. EndInv(c)'
        BY <3>3 DEF EndInv
      <3> QED
        BY <3>4, <3>5 DEF ShardStream
    <2>3. CASE nodeOf[dir[c]] \notin Unstored
      BY <2>1, <2>3, AheadNext DEF ShardStream, EndInv
    <2> QED
      BY <2>2, <2>3
  <1>4. CASE MountArtifact(c)
    <2>1. pc'[c] = "answered"
      BY <1>4 DEF MountArtifact, ClientTypes
    <2> QED
      BY <2>1, StreamOver
  <1>5. CASE Compute(c)
    <2>1. dir' = dir /\ want' = want /\ pc[c] \in {"metadata", "link"}
      BY <1>5 DEF Compute
    <2>2. CASE want[c] # NoNode
      BY <2>1, <2>2, StreamOver
    <2>3. CASE want[c] = NoNode /\ nodeOf[dir[c]] \in Unstored
      BY <1>5, <2>3, ShardComputed
    <2>4. CASE nodeOf[dir[c]] \notin Unstored
      <3>1. dir[c] \in Handles
        BY DEF ClientTypes
      <3>2. nodeOf'[dir'[c]] = nodeOf[dir[c]]
        BY <2>1, <3>1 DEF Grown
      <3> QED
        BY <2>4, <3>2, AheadNext DEF ShardStream, EndInv
    <2> QED
      BY <2>2, <2>3, <2>4
  <1>6. CASE Fail(c)
    <2>1. pc'[c] = "error"
      BY <1>6 DEF Fail, ClientTypes
    <2> QED
      BY <2>1, StreamOver
  <1>7. CASE Done(c)
    <2>1. pc'[c] = "idle"
      BY <1>7 DEF Done, ClientTypes
    <2> QED
      BY <2>1, StreamOver
  <1> QED
    BY <1>1, <1>2, <1>3, <1>4, <1>5, <1>6, <1>7 DEF Step

\* A client's step leaves the rows, and the other clients, alone.
LEMMA OthersStay ==
  ASSUME ClientTypes, IInv, IInv', NEW c \in Clients,
         \/ \E i \in Inodes : Opendir(c, i)
         \/ \E i \in Inodes, n \in Names : Lookup(c, i, n)
         \/ Step(c)
  PROVE  /\ rows' = rows
         /\ \A u \in Clients \ {c} :
               Stays(u) /\ stable'[u] = stable[u] /\ purged'[u] = purged[u]
  <1>1. rows' = rows
    BY DEF Opendir, Lookup, Step, Readdir, MountArtifact, Compute, Fail, Done
  <1>2. ASSUME NEW u \in Clients, u # c
        PROVE  Stays(u) /\ stable'[u] = stable[u] /\ purged'[u] = purged[u]
    <2>1. ClientStep(c)
      BY RequestSteps
    <2>2. ASSUME NEW S, NEW f \in [Clients -> S], NEW g, Sets(f, g, c)
          PROVE  g[u] = f[u]
      BY <1>2, <2>2 DEF Sets
    <2>3. /\ pc'[u] = pc[u] /\ offset'[u] = offset[u]
          /\ seen'[u] = seen[u] /\ purged'[u] = purged[u]
      BY <2>1, <2>2 DEF ClientTypes, ClientStep
    <2>4. dir'[u] = dir[u] /\ want'[u] = want[u] /\ made'[u] = made[u]
      BY <2>1, <2>2 DEF ClientTypes, ClientStep
    <2>5. got'[u] = got[u] /\ stable'[u] = stable[u]
      BY <2>1, <2>2 DEF ClientTypes, ClientStep
    <2> QED
      BY <2>3, <2>4, <2>5 DEF Stays
  <1> QED
    BY <1>1, <1>2

\* A row that comes in leaves those that a stream is still to come to before it.
LEMMA RemembersAhead ==
  ASSUME Types, IInv, IInv', NEW n \in RowNodes, Remember(n),
         NEW u \in Clients, ShardStream(u)
  PROVE  ShardStream(u)'
  <1>1. /\ rows' = rows \cup {n} /\ nodeOf' = nodeOf /\ pc' = pc /\ dir' = dir
        /\ want' = want /\ offset' = offset /\ seen' = seen
        /\ stable' = stable /\ purged' = purged
    BY DEF Remember, client
  <1>2. PICK d : d = nodeOf[dir[u]]
    OBVIOUS
  <1>3. PICK o \in Nat : o = offset[u]
    BY DEF Types, ClientTypes
  <1>4. ASSUME d \in Unstored,
               Ahead(stable[u], seen[u], Selected(Children[d], rows), o)
        PROVE  Ahead(stable[u], seen[u], Selected(Children[d], rows'), o)
    <2>1. Children[d] \in Seq(Nodes)
      BY <1>4, ShardListing
    <2>2. PICK s \in Seq(Nodes) : s = Selected(Children[d], rows)
      BY <2>1, SelectedType
    <2>3. PICK t \in Seq(Nodes) : t = Selected(Children[d], rows')
      BY <2>1, SelectedType
    <2>4. \A k \in 1 .. Len(s) : \E j \in 1 .. Len(t) : k <= j /\ t[j] = s[k]
      <3>1. PICK R, more : R = rows /\ more = rows'
        OBVIOUS
      <3>2. PICK list \in Seq(Nodes) : list = Children[d]
        BY <2>1
      <3>3. R \subseteq more
        BY <1>1, <3>1
      <3>4. MovedBack(Selected(list, R), Selected(list, more))
        BY ONLY list \in Seq(Nodes), <3>3, SelectedAhead
      <3> QED
        BY ONLY <2>2, <2>3, <3>1, <3>2, <3>4 DEF MovedBack
    <2>5. ASSUME NEW m \in stable[u], m \notin ToSet(seen[u])
          PROVE  \E j \in o + 1 .. Len(t) : t[j] = m
      <3>1. PICK k \in o + 1 .. Len(s) : s[k] = m
        BY <1>4, <2>2, <2>5 DEF Ahead
      <3>2. k \in 1 .. Len(s)
        OBVIOUS
      <3>3. PICK j \in 1 .. Len(t) : k <= j /\ t[j] = s[k]
        BY <2>4, <3>2
      <3>4. j \in o + 1 .. Len(t)
        BY <3>3
      <3> QED
        BY <3>1, <3>3, <3>4
    <2> QED
      BY <2>3, <2>5 DEF Ahead
  <1>5. AheadInv(u)'
    BY <1>1, <1>2, <1>3, <1>4, AheadMeans, AheadNext DEF ShardStream
  <1>6. EndInv(u)'
    BY <1>1 DEF ShardStream, EndInv
  <1> QED
    BY <1>5, <1>6 DEF ShardStream

\* A purge is one that every stream there is knows of.
LEMMA PurgesKnown ==
  ASSUME Types, IInv, IInv', NEW i \in Inodes, NEW n \in RowNodes, Unlink(i, n),
         NEW u \in Clients
  PROVE  ShardStream(u)'
  <1>1. pc' = pc /\ purged'[u] = (purged[u] \/ pc[u] # "idle")
    BY DEF Unlink
  <1>2. CASE pc[u] = "idle"
    BY <1>1, <1>2, StreamOver
  <1>3. CASE pc[u] # "idle"
    BY <1>1, <1>3, AheadNext DEF ShardStream, EndInv
  <1> QED
    BY <1>2, <1>3

\* No listing of cache/ is stored.
LEMMA NoneStored ==
  ASSUME NoneKept, IInv, Grown, [Next]_vars
  PROVE  NoneKept'
  <1> SUFFICES ASSUME NEW j \in DOMAIN held' PROVE nodeOf'[j] \notin Unstored
    BY DEF NoneKept
  <1>1. \A i \in Handles : nodeOf'[i] = nodeOf[i]
    BY DEF Grown
  <1>2. \A i \in DOMAIN held : i \in Handles /\ nodeOf[i] \notin Unstored
    BY DEF IInv, ListingsInv, NoneKept
  <1>3. CASE UNCHANGED listings
    BY <1>1, <1>2, <1>3 DEF listings
  <1>4. CASE \E i \in Handles : \E value : Stored(i, value)
    <2>1. PICK i \in Handles : \E value : Stored(i, value)
      BY <1>4
    <2>2. PICK value : Stored(i, value)
      BY <2>1
    <2>3. CacheSet(i, value) /\ nodeOf[i] \notin Unstored
      BY <2>2 DEF Stored
    <2>4. j = i \/ j \in DOMAIN held
      BY <2>3, CacheSetHolds
    <2> QED
      BY <1>1, <1>2, <2>3, <2>4
  <1> QED
    BY <1>3, <1>4, ListingsChange

\* What the streams over cache/ rest on, at every step.
THEOREM CacheDirInvariance == Spec => []CacheDirInv
  <1> DEFINE Inv == NoneKept /\ \A c \in Clients : ShardStream(c)
  <1>1. Inv => CacheDirInv
    BY DEF CacheDirInv, NothingMissedUnlessPurged, ShardStream, EndInv
  <1>2. Init => Inv
    <2> SUFFICES ASSUME Init PROVE Inv
      OBVIOUS
    <2>1. NoneKept
      BY DEF Init, CacheInit, NoneKept
    <2>2. ASSUME NEW c \in Clients
          PROVE  ShardStream(c)
      BY AheadMeans DEF Init, ShardStream, EndInv
    <2> QED
      BY <2>1, <2>2
  <1>3. IInv /\ TypeOK /\ Inv /\ [Next]_vars => Inv'
    <2> SUFFICES ASSUME IInv, TypeOK, Inv, [Next]_vars PROVE Inv'
      OBVIOUS
    <2>1. IInv' /\ Grown /\ Types /\ ClientTypes
      BY NextKeeps, TypeParts DEF Types
    <2>2. NoneKept'
      BY <2>1, NoneStored
    <2>3. ASSUME NEW c \in Clients, NEW u \in Clients,
                 \/ \E i \in Inodes : Opendir(c, i)
                 \/ \E i \in Inodes, n \in Names : Lookup(c, i, n)
                 \/ Step(c)
          PROVE  ShardStream(u)'
      <3>1. CASE u = c
        BY <2>1, <2>3, <3>1, OwnStream
      <3>2. CASE u # c
        BY <2>1, <2>3, <3>2, OthersStay, StreamUntouched
      <3> QED
        BY <3>1, <3>2
    <2>4. ASSUME UNCHANGED vars, NEW u \in Clients
          PROVE  ShardStream(u)'
      BY <2>1, <2>4, StreamUntouched DEF vars, client, Stays
    <2>5. ASSUME NEW u \in Clients, Next
          PROVE  ShardStream(u)'
      BY <2>1, <2>3, <2>5, RemembersAhead, PurgesKnown DEF Next
    <2> QED
      BY <2>2, <2>4, <2>5
  <1> QED
    BY <1>1, <1>2, <1>3, TreeInvariance, TreeTypes, PTL DEF Spec

\* A stream over a shard of cache/ misses no row that was there from its opening
\* to its end, whatever rows come in meanwhile, unless one is purged: readdir
\* resumes by position in rows that are only ever moved back.
THEOREM NothingMissedInCache == Spec => []NothingMissedUnlessPurged
  <1>1. CacheDirInv => NothingMissedUnlessPurged
    BY DEF CacheDirInv
  <1> QED
    BY <1>1, CacheDirInvariance, PTL

-----------------------------------------------------------------------------
(* The tree as clients see it.                                             *)

\* What was named to the kernel.
Reached == {nodeOf[i] : i \in known}

\* A cached listing has children of its directory only, also where these come
\* and go with their rows.
Own(entries, d) == \A k \in 1 .. Len(entries) : nodeOf[entries[k]] \in ToSet(Children[d])

OwnInv ==
    /\ nodeOf[1] = Root
    /\ \A i \in DOMAIN held : Own(held[i], nodeOf[i])

\* In the abstract tree, the request of c comes to s, about d and the name n, its
\* stream has returned t, and the kernel knows of R.
Comes(c, s, d, n, t, R) ==
    /\ [u \in Clients |-> Status(u)'] = [[u \in Clients |-> Status(u)] EXCEPT ![c] = s]
    /\ [u \in Clients |-> nodeOf'[dir'[u]]] =
           [[u \in Clients |-> nodeOf[dir[u]]] EXCEPT ![c] = d]
    /\ want' = [want EXCEPT ![c] = n]
    /\ seen' = [seen EXCEPT ![c] = t]
    /\ Reached' = R

\* A step of one client leaves what the others see.
LEMMA OneComes ==
  ASSUME ClientTypes, IInv, Grown, NEW c \in Clients, ClientStep(c)
  PROVE  Comes(c, Status(c)', nodeOf'[dir'[c]], want'[c], seen'[c], Reached')
  <1>1. ASSUME NEW u \in Clients \ {c}
        PROVE  /\ pc'[u] = pc[u] /\ dir'[u] = dir[u] /\ want'[u] = want[u] /\ got'[u] = got[u]
    BY DEF ClientTypes, ClientStep, Sets
  <1>2. ASSUME NEW u \in Clients \ {c}
        PROVE  Status(u)' = Status(u) /\ nodeOf'[dir'[u]] = nodeOf[dir[u]]
    <2>1. dir[u] \in Handles
      BY DEF ClientTypes
    <2> QED
      BY <1>1, <2>1 DEF Status, Grown
  <1>3. want' = [want EXCEPT ![c] = want'[c]]
    BY DEF ClientTypes, ClientStep, Sets
  <1>4. seen' = [seen EXCEPT ![c] = seen'[c]]
    BY DEF ClientTypes, ClientStep, Sets
  <1>5. [u \in Clients |-> Status(u)'] = [[u \in Clients |-> Status(u)] EXCEPT ![c] = Status(c)']
    BY <1>2, Zenon
  <1>6. [u \in Clients |-> nodeOf'[dir'[u]]] =
           [[u \in Clients |-> nodeOf[dir[u]]] EXCEPT ![c] = nodeOf'[dir'[c]]]
    BY <1>2, Zenon
  <1> QED
    BY <1>3, <1>4, <1>5, <1>6, Zenon DEF Comes

\* Operators of the library, as the abstract tree has them.
LEMMA TreeOperators ==
  /\ \A s : Tree!ToSet(s) = ToSet(s)
  /\ \A s, t : Tree!IsPrefix(s, t) = IsPrefix(s, t)
  /\ \A d : Tree!NamesIn(d) = ToSet(Children[d]) /\ Tree!Shown(d) = Fixed(d)
  BY DEF Tree!ToSet, ToSet, Tree!IsPrefix, IsPrefix, Tree!NamesIn, Tree!Shown, Fixed

\* Steps of the abstract tree, in these terms.
LEMMA Asks ==
  ASSUME NEW c \in Clients, Status(c) = "idle", NEW d \in Reached \cap Dirs,
         ClientTypes,
         \/ Comes(c, "reading", d, want[c], seen[c], Reached)
         \/ \E name \in Nodes :
               \/ Comes(c, "looking", d, name, seen[c], Reached)
               \/ /\ name \in ToSet(Children[d])
                  /\ Comes(c, "found", d, name, seen[c], Reached \cup {name})
               \/ /\ d \in Live \/ name \notin ToSet(Children[d])
                  /\ Comes(c, "none", d, name, seen[c], Reached)
  PROVE  Tree!Next
  <1>1. want = [want EXCEPT ![c] = want[c]] /\ seen = [seen EXCEPT ![c] = seen[c]]
    BY DEF ClientTypes
  <1>2. CASE Comes(c, "reading", d, want[c], seen[c], Reached)
    <2>1. Tree!Open(c, d)
      BY <1>1, <1>2 DEF Comes, Tree!Open, Reached
    <2> QED
      BY <2>1 DEF Tree!Next, Tree!Goes, Tree!Ask, Reached, Dirs
  <1>3. ASSUME NEW name \in Nodes,
               \/ Comes(c, "looking", d, name, seen[c], Reached)
               \/ /\ name \in ToSet(Children[d])
                  /\ Comes(c, "found", d, name, seen[c], Reached \cup {name})
               \/ /\ d \in Live \/ name \notin ToSet(Children[d])
                  /\ Comes(c, "none", d, name, seen[c], Reached)
        PROVE  Tree!Next
    <2>1. Tree!LookUp(c, d, name)
      <3>1. CASE Comes(c, "looking", d, name, seen[c], Reached)
        BY <1>1, <3>1 DEF Comes, Tree!LookUp, Reached
      <3>2. CASE /\ name \in ToSet(Children[d])
                 /\ Comes(c, "found", d, name, seen[c], Reached \cup {name})
        BY <1>1, <3>2, TreeOperators DEF Comes, Tree!LookUp, Tree!Resolve, Reached
      <3>3. CASE /\ d \in Live \/ name \notin ToSet(Children[d])
                 /\ Comes(c, "none", d, name, seen[c], Reached)
        BY <1>1, <3>3, TreeOperators DEF Comes, Tree!LookUp, Tree!Resolve, Reached
      <3> QED
        BY <1>3, <3>1, <3>2, <3>3
    <2>2. name \in Tree!Nodes
      BY TreeOperators, Zenon DEF Nodes, Tree!Nodes, Dirs
    <2> QED
      BY <2>1, <2>2 DEF Tree!Next, Tree!Goes, Tree!Ask, Reached, Dirs
  <1> QED
    BY <1>2, <1>3

\* The stream of c has its next block, or has ended.
LEMMA Reads ==
  ASSUME NEW c \in Clients, Status(c) = "reading", NEW d, d = nodeOf[dir[c]],
         ClientTypes,
         \/ /\ Comes(c, "end", d, want[c], seen[c], Reached)
            /\ d \notin Live => seen[c] = Fixed(d)
         \/ \E n \in 1 .. Block : \E new \in [1 .. n -> ToSet(Children[d])] :
               /\ Comes(c, "reading", d, want[c], seen[c] \o new, Reached \cup ToSet(new))
               /\ d \notin Live => IsPrefix(seen[c] \o new, Fixed(d))
  PROVE  Tree!Next
  <1> DEFINE status == [u \in Clients |-> Status(u)]
             at == [u \in Clients |-> nodeOf[dir[u]]]
  <1>1. /\ want = [want EXCEPT ![c] = want[c]] /\ seen = [seen EXCEPT ![c] = seen[c]]
        /\ at = [at EXCEPT ![c] = d]
        /\ status[c] = "reading" /\ at[c] = d
    BY DEF ClientTypes
  <1>2. status = [status EXCEPT ![c] = "reading"]
    BY Zenon
  <1>3. CASE /\ Comes(c, "end", d, want[c], seen[c], Reached)
             /\ d \notin Live => seen[c] = Fixed(d)
    <2>1. Tree!Finish(c)
      BY <1>1, <1>3, TreeOperators DEF Comes, Tree!Finish, Reached
    <2> QED
      BY <2>1 DEF Tree!Next, Tree!Goes
  <1>4. ASSUME NEW n \in 1 .. Block, NEW new \in [1 .. n -> ToSet(Children[d])],
               Comes(c, "reading", d, want[c], seen[c] \o new, Reached \cup ToSet(new)),
               d \notin Live => IsPrefix(seen[c] \o new, Fixed(d))
        PROVE  Tree!Next
    <2>1. Tree!Receive(c)
      BY <1>1, <1>2, <1>4, TreeOperators DEF Comes, Tree!Receive, Reached
    <2> QED
      BY <2>1 DEF Tree!Next, Tree!Goes
  <1> QED
    BY <1>3, <1>4

\* The lookup of c is answered.
LEMMA Looks ==
  ASSUME NEW c \in Clients, Status(c) = "looking", NEW d, d = nodeOf[dir[c]],
         ClientTypes, NEW name, name = want[c],
         \/ /\ name \in ToSet(Children[d])
            /\ Comes(c, "found", d, name, seen[c], Reached \cup {name})
         \/ /\ d \in Live \/ name \notin ToSet(Children[d])
            /\ Comes(c, "none", d, name, seen[c], Reached)
  PROVE  Tree!Next
  <1> DEFINE status == [u \in Clients |-> Status(u)]
             at == [u \in Clients |-> nodeOf[dir[u]]]
  <1>1. /\ want = [want EXCEPT ![c] = want[c]] /\ seen = [seen EXCEPT ![c] = seen[c]]
        /\ at = [at EXCEPT ![c] = d]
        /\ status[c] = "looking" /\ at[c] = d
    BY DEF ClientTypes
  <1>2. Tree!Answer(c)
    BY <1>1, TreeOperators DEF Comes, Tree!Answer, Tree!Resolve, Reached
  <1> QED
    BY <1>2 DEF Tree!Next, Tree!Goes

\* The request of c fails, or is done with.
LEMMA Ends ==
  ASSUME NEW c \in Clients, NEW d, d = nodeOf[dir[c]], ClientTypes,
         \/ /\ Status(c) \in {"reading", "looking"}
            /\ Comes(c, "error", d, want[c], seen[c], Reached)
         \/ /\ Status(c) \in {"found", "none", "end", "error"}
            /\ Comes(c, "idle", Root, NoNode, <<>>, Reached)
  PROVE  Tree!Next
  <1> DEFINE status == [u \in Clients |-> Status(u)]
             at == [u \in Clients |-> nodeOf[dir[u]]]
  <1>1. /\ want = [want EXCEPT ![c] = want[c]] /\ seen = [seen EXCEPT ![c] = seen[c]]
        /\ at = [at EXCEPT ![c] = d] /\ status[c] = Status(c)
    BY DEF ClientTypes
  <1>2. Tree!Fail(c) \/ Tree!Close(c)
    BY <1>1 DEF Comes, Tree!Fail, Tree!Close, Reached
  <1> QED
    BY <1>2 DEF Tree!Next, Tree!Goes

\* Awaits, and what happens beside the requests, do not show.
LEMMA Stutters ==
  ASSUME NEW c \in Clients, ClientTypes,
         Comes(c, Status(c), nodeOf[dir[c]], want[c], seen[c], Reached)
  PROVE  UNCHANGED Tree!vars
  <1>1. want = [want EXCEPT ![c] = want[c]] /\ seen = [seen EXCEPT ![c] = seen[c]]
    BY DEF ClientTypes
  <1>2. [u \in Clients |-> nodeOf[dir[u]]] =
           [[u \in Clients |-> nodeOf[dir[u]]] EXCEPT ![c] = nodeOf[dir[c]]]
    BY Zenon
  <1>3. [u \in Clients |-> Status(u)] = [[u \in Clients |-> Status(u)] EXCEPT ![c] = Status(c)]
    BY Zenon
  <1> QED
    BY <1>1, <1>2, <1>3 DEF Comes, Tree!vars, Reached

-----------------------------------------------------------------------------
(* What a request that has its listing shows.                              *)

\* The names of the inodes given to the kernel, as they grow.
LEMMA ReachedGrows ==
  ASSUME Grown, known \subseteq Handles, NEW more, known' = known \cup more
  PROVE  Reached' = Reached \cup {nodeOf'[i] : i \in more}
  <1>1. \A i \in known : nodeOf'[i] = nodeOf[i]
    BY DEF Grown
  <1> QED
    BY <1>1 DEF Reached

\* A listing of children, for d as the directory is.
Lists(listing, d) ==
    /\ listing \in Seq(1 .. Len(nodeOf'))
    /\ \A k \in 1 .. Len(listing) : nodeOf'[listing[k]] \in ToSet(Children[d])

\* A block of a stream, or its end.
LEMMA ServeShows ==
  ASSUME ClientTypes, Grown, known \subseteq Handles, NEW c \in Clients,
         NEW d, NEW listing, Lists(listing, d), Serve(c, listing)
  PROVE  \/ pc'[c] = "end" /\ seen'[c] = seen[c] /\ Reached' = Reached
         \/ /\ pc'[c] = "open"
            /\ \E n \in 1 .. Block : \E new \in [1 .. n -> ToSet(Children[d])] :
                  seen'[c] = seen[c] \o new /\ Reached' = Reached \cup ToSet(new)
  <1>1. PICK n \in 1 .. Block :
          LET last == Min({Len(listing), offset[c] + n})
              sent == SubSeq(listing, offset[c] + 1, last)
          IN  /\ seen' = [seen EXCEPT ![c] =
                             @ \o [k \in 1 .. Len(sent) |-> nodeOf'[sent[k]]]]
              /\ known' = known \cup ToSet(sent)
    BY DEF Serve
  <1>2. pc'[c] = IF offset[c] >= Len(listing) THEN "end" ELSE "open"
    BY DEF Serve, ClientTypes
  <1>3. PICK o \in Nat, L \in Nat : o = offset[c] /\ L = Len(listing)
    BY DEF ClientTypes, Lists
  <1>4. n \in Nat /\ n > 0 /\ n <= Block
    BY BoundAssumption
  <1>5. PICK last \in Nat : /\ last = Min({L, o + n})
                            /\ last = IF L <= o + n THEN L ELSE o + n
    <2>1. PICK b \in Nat : b = o + n
      BY <1>4
    <2>2. Min({L, b}) = IF L <= b THEN L ELSE b
      BY LesserOf
    <2> QED
      BY <2>1, <2>2
  <1>6. PICK sent \in Seq(1 .. Len(nodeOf')) :
            /\ sent = SubSeq(listing, o + 1, last)
            /\ Len(sent) = IF o < last THEN last - o ELSE 0
            /\ \A k \in 1 .. last - o : sent[k] = listing[o + k]
    <2>1. PICK H : H = 1 .. Len(nodeOf')
      OBVIOUS
    <2>4. listing \in Seq(H)
      BY <2>1 DEF Lists
    <2>5. last <= L
      BY ONLY <1>4, <1>5, L \in Nat, o \in Nat
    <2>2. listing \in Seq(H) /\ last <= Len(listing)
      BY <1>3, <2>4, <2>5
    <2>3. /\ SubSeq(listing, o + 1, last) \in Seq(H)
          /\ Len(SubSeq(listing, o + 1, last)) = IF o < last THEN last - o ELSE 0
          /\ \A k \in 1 .. last - o : SubSeq(listing, o + 1, last)[k] = listing[o + k]
      BY ONLY <2>2, o \in Nat, last \in Nat, WithinBounds
    <2> QED
      BY <2>1, <2>3
  <1>7. PICK m \in Nat : m = Len(sent)
    OBVIOUS
  <1>8. PICK new : new = [k \in 1 .. m |-> nodeOf'[sent[k]]]
    OBVIOUS
  <1>9. seen'[c] = seen[c] \o new /\ known' = known \cup ToSet(sent)
    BY <1>1, <1>3, <1>5, <1>6, <1>7, <1>8 DEF ClientTypes
  <1>10. CASE o >= L
    <2>1. m = 0
      <3>1. Len(sent) = IF o < last THEN last - o ELSE 0
        BY <1>6
      <3> QED
        BY ONLY <1>4, <1>5, <1>7, <1>10, <3>1, o \in Nat, L \in Nat, last \in Nat
    <2>5. 1 .. m = {}
      BY <2>1
    <2>6. new = <<>>
      BY ONLY <1>8, <2>5
    <2>7. DOMAIN sent = 1 .. m
      BY <1>7
    <2>2. new = <<>> /\ ToSet(sent) = {}
      BY <2>5, <2>6, <2>7 DEF ToSet
    <2>3. seen'[c] = seen[c]
      <3>1. PICK s \in Seq(Nodes) : s = seen[c]
        BY DEF ClientTypes
      <3> QED
        BY <1>9, <2>2, <3>1
    <2>4. Reached' = Reached
      <3>1. Reached' = Reached \cup {nodeOf'[i] : i \in ToSet(sent)}
        BY <1>9, ReachedGrows
      <3> QED
        BY ONLY <2>2, <3>1
    <2> QED
      BY <1>2, <1>3, <1>10, <2>3, <2>4
  <1>11. CASE o < L
    <2>1. m \in 1 .. Block /\ m = last - o /\ last <= L
      <3>1. Len(sent) = IF o < last THEN last - o ELSE 0
        BY <1>6
      <3>2. Block \in Nat
        BY BoundAssumption
      <3> QED
        BY ONLY <1>4, <1>5, <1>7, <1>11, <3>1, <3>2, o \in Nat, L \in Nat, last \in Nat, SMTT(30)
    <2>2. ASSUME NEW k \in 1 .. m
          PROVE  nodeOf'[sent[k]] \in ToSet(Children[d])
      <3>2. k \in 1 .. last - o /\ o + k \in 1 .. L
        BY ONLY <2>1, k \in 1 .. m, o \in Nat, L \in Nat, last \in Nat
      <3>1. sent[k] = listing[o + k] /\ o + k \in 1 .. Len(listing)
        BY <1>3, <1>6, <3>2
      <3> QED
        BY <3>1 DEF Lists
    <2>3. new \in [1 .. m -> ToSet(Children[d])]
      BY <1>8, <2>2
    <2>4. ToSet(new) = {nodeOf'[i] : i \in ToSet(sent)}
      <3>1. DOMAIN sent = 1 .. m /\ DOMAIN new = 1 .. m
        BY <1>7, <1>8
      <3>2. ToSet(new) = {new[k] : k \in 1 .. m} /\ ToSet(sent) = {sent[k] : k \in 1 .. m}
        BY <3>1 DEF ToSet
      <3> QED
        BY <1>8, <3>2
    <2>5. Reached' = Reached \cup ToSet(new)
      BY <1>9, <2>4, ReachedGrows
    <2>6. pc'[c] = "open"
      BY <1>2, <1>3, <1>11
    <2> QED
      BY <1>9, <2>1, <2>3, <2>5, <2>6
  <1>12. o >= L \/ o < L
    OBVIOUS
  <1> QED
    BY <1>10, <1>11, <1>12, Zenon

\* The answer to a lookup.
LEMMA FindShows ==
  ASSUME ClientTypes, Grown, known \subseteq Handles, NEW c \in Clients,
         NEW d, NEW listing, NEW name, Lists(listing, d), Find(c, listing, name)
  PROVE  /\ pc'[c] = "answered" /\ seen'[c] = seen[c]
         /\ \/ got'[c] = 0 /\ Reached' = Reached
            \/ /\ got'[c] # 0 /\ name \in ToSet(Children[d])
               /\ Reached' = Reached \cup {name}
  <1> DEFINE hits == {i \in ToSet(listing) : nodeOf'[i] = name}
  <1>1. /\ got'[c] = (IF hits = {} THEN 0 ELSE Min(hits))
        /\ known' = known \cup hits /\ pc'[c] = "answered" /\ seen' = seen
    BY DEF Find, ClientTypes
  <1>2. hits \subseteq 1 .. Len(nodeOf') /\ hits \subseteq Nat /\ 0 \notin hits
    BY DEF Lists, ToSet
  <1>3. \A i \in hits : nodeOf'[i] = name /\ name \in ToSet(Children[d])
    BY DEF Lists, ToSet
  <1>4. Reached' = Reached \cup {nodeOf'[i] : i \in hits}
    BY <1>1, ReachedGrows
  <1> HIDE DEF hits
  <1>5. CASE hits = {}
    BY <1>1, <1>4, <1>5
  <1>6. CASE hits # {}
    <2>1. Min(hits) \in hits
      BY <1>2, <1>6, LeastInSet
    <2>2. {nodeOf'[i] : i \in hits} = {name}
      BY <1>3, <1>6
    <2> QED
      BY <1>1, <1>2, <1>3, <1>4, <1>6, <2>1, <2>2
  <1> QED
    BY <1>5, <1>6

\* So is a listing that was computed.
LEMMA ComputedLists ==
  ASSUME NEW c \in Clients, NEW i, NEW d \in Dirs, NEW listing \in Seq(Nodes),
         NEW table \in Seq(Nodes), NEW entries \in Seq(1 .. Len(table)), NEW last \in Nat,
         NEW new, NEW children,
         ComputesTo(c, i, d, listing, table, entries, last, new, children)
  PROVE  Lists(children, d)
  <1>1. PICK k \in Nat : k = Len(entries)
    OBVIOUS
  <1>2. /\ listing = Listing(d) /\ table = nodeOf /\ nodeOf' = new
        /\ Partial(nodeOf, entries, d) /\ k <= last /\ last <= Len(listing)
        /\ d \in Live => k = 0
    BY <1>1 DEF ComputesTo
  <1>3. /\ \A n \in 1 .. Len(table) : new[n] = table[n]
        /\ children \in Seq(1 .. Len(new)) /\ Len(children) = last
        /\ \A n \in 1 .. k : children[n] = entries[n]
        /\ \A n \in k + 1 .. last : new[children[n]] = listing[n]
    BY <1>1, Zenon DEF ComputesTo, Extended
  <1>4. /\ listing \in Seq(ToSet(Children[d]))
        /\ d \notin Live => listing = Fixed(d)
    BY <1>2, ListingType
  <1>5. ASSUME NEW n \in 1 .. last
        PROVE  new[children[n]] = listing[n]
    <2>1. CASE n \in 1 .. k
      <3>1. d \notin Live
        BY <1>2, <2>1
      <3>4. entries[n] \in 1 .. Len(table)
        BY <1>1, <2>1
      <3>2. children[n] = entries[n] /\ entries[n] \in 1 .. Len(table)
        BY <1>3, <2>1, <3>4, Zenon
      <3>3. table[entries[n]] = Fixed(d)[n]
        BY <1>1, <1>2, <2>1, <3>1 DEF Partial
      <3> QED
        BY <1>3, <1>4, <3>1, <3>2, <3>3
    <2>2. CASE n \in k + 1 .. last
      BY <1>3, <2>2
    <2> QED
      BY <2>1, <2>2
  <1>6. ASSUME NEW n \in 1 .. last
        PROVE  listing[n] \in ToSet(Children[d])
    <2>1. n \in 1 .. Len(listing)
      BY <1>2
    <2> QED
      BY <1>4, <2>1
  <1> QED
    BY <1>2, <1>3, <1>5, <1>6 DEF Lists

-----------------------------------------------------------------------------
(* The steps of a client.                                                  *)

\* The next block of a stream, from a listing that was kept or computed.
LEMMA ServeReads ==
  ASSUME ClientTypes, IInv, IInv', Grown, NEW c \in Clients, ClientStep(c),
         NEW d, d = nodeOf[dir[c]], dir' = dir, want' = want, want[c] = NoNode,
         Status(c) = "reading", NEW listing, Lists(listing, d), Serve(c, listing)
  PROVE  Tree!Next
  <1>1. /\ d \in Dirs /\ dir[c] \in Handles /\ known \subseteq Handles
    BY DEF IInv, RequestInv, TableInv
  <1>2. nodeOf'[dir'[c]] = d /\ want'[c] = NoNode
    BY <1>1 DEF Grown
  <1>3. Comes(c, Status(c)', d, want[c], seen'[c], Reached')
    BY <1>2, OneComes
  <1>4. /\ seen'[c] \in Seq(Nodes) /\ Returned(seen'[c], d)
        /\ pc'[c] = "end" /\ d \notin Live => Len(seen'[c]) = Len(Fixed(d))
    BY <1>2 DEF IInv, StreamInv
  <1>5. ASSUME d \notin Live
        PROVE  /\ IsPrefix(seen'[c], Fixed(d))
               /\ pc'[c] = "end" => seen'[c] = Fixed(d)
    <2>1. PICK s \in Seq(Nodes) : s = seen'[c]
      BY <1>4
    <2>2. PICK t \in Seq(Nodes) : t = Fixed(d)
      BY <1>1, <1>5, ListingType
    <2>3. /\ Len(s) <= Len(t) /\ \A k \in 1 .. Len(s) : s[k] = t[k]
          /\ pc'[c] = "end" => Len(s) = Len(t)
      BY <1>4, <1>5, <2>1, <2>2 DEF Returned
    <2>4. IsPrefix(s, t)
      BY ONLY <2>3, s \in Seq(Nodes), t \in Seq(Nodes) DEF IsPrefix
    <2>5. Len(s) = Len(t) => s = t
      BY ONLY <2>3, s \in Seq(Nodes), t \in Seq(Nodes)
    <2> QED
      BY <2>1, <2>2, <2>3, <2>4, <2>5
  <1>6. CASE pc'[c] = "end" /\ seen'[c] = seen[c] /\ Reached' = Reached
    <2>1. Status(c)' = "end"
      BY <1>6 DEF Status
    <2>2. Comes(c, "end", d, want[c], seen[c], Reached)
      BY <1>3, <1>6, <2>1
    <2>3. d \notin Live => seen[c] = Fixed(d)
      BY <1>5, <1>6
    <2> QED
      BY <2>2, <2>3, Reads
  <1>7. ASSUME pc'[c] = "open",
               NEW n \in 1 .. Block, NEW new \in [1 .. n -> ToSet(Children[d])],
               seen'[c] = seen[c] \o new, Reached' = Reached \cup ToSet(new)
        PROVE  Tree!Next
    <2>1. Status(c)' = "reading"
      BY <1>2, <1>7 DEF Status
    <2>2. Comes(c, "reading", d, want[c], seen[c] \o new, Reached \cup ToSet(new))
      BY <1>3, <1>7, <2>1
    <2>3. d \notin Live => IsPrefix(seen[c] \o new, Fixed(d))
      BY <1>5, <1>7
    <2> QED
      BY <2>2, <2>3, Reads
  <1>8. CASE /\ pc'[c] = "open"
             /\ \E n \in 1 .. Block : \E new \in [1 .. n -> ToSet(Children[d])] :
                   seen'[c] = seen[c] \o new /\ Reached' = Reached \cup ToSet(new)
    <2>1. PICK n \in 1 .. Block : \E new \in [1 .. n -> ToSet(Children[d])] :
            seen'[c] = seen[c] \o new /\ Reached' = Reached \cup ToSet(new)
      BY <1>8
    <2>2. PICK new \in [1 .. n -> ToSet(Children[d])] :
            seen'[c] = seen[c] \o new /\ Reached' = Reached \cup ToSet(new)
      BY <2>1
    <2> QED
      BY <1>7, <1>8, <2>2
  <1>9. \/ pc'[c] = "end" /\ seen'[c] = seen[c] /\ Reached' = Reached
        \/ /\ pc'[c] = "open"
           /\ \E n \in 1 .. Block : \E new \in [1 .. n -> ToSet(Children[d])] :
                 seen'[c] = seen[c] \o new /\ Reached' = Reached \cup ToSet(new)
    BY <1>1, ServeShows
  <1> QED
    BY <1>6, <1>8, <1>9

\* The answer of a lookup.
LEMMA FindComes ==
  ASSUME ClientTypes, IInv, IInv', Grown, NEW c \in Clients, ClientStep(c),
         NEW d, d = nodeOf'[dir'[c]], NEW name \in Nodes, want'[c] = name,
         NEW listing, Lists(listing, d), Find(c, listing, name)
  PROVE  \/ /\ name \in ToSet(Children[d])
            /\ Comes(c, "found", d, name, seen[c], Reached \cup {name})
         \/ /\ d \in Live \/ name \notin ToSet(Children[d])
            /\ Comes(c, "none", d, name, seen[c], Reached)
  <1>1. /\ pc'[c] = "answered" /\ seen'[c] = seen[c]
        /\ \/ got'[c] = 0 /\ Reached' = Reached
           \/ /\ got'[c] # 0 /\ name \in ToSet(Children[d])
              /\ Reached' = Reached \cup {name}
    <2>1. known \subseteq Handles
      BY DEF IInv, TableInv
    <2> QED
      BY <2>1, FindShows
  <1>2. Status(c)' = IF got'[c] = 0 THEN "none" ELSE "found"
    BY <1>1 DEF Status
  <1>3. got'[c] = 0 => d \in Live \/ name \notin ToSet(Children[d])
    BY <1>1 DEF IInv, AnswerInv
  <1>4. Comes(c, Status(c)', d, name, seen[c], Reached')
    BY <1>1, OneComes
  <1> QED
    BY <1>1, <1>2, <1>3, <1>4

\* A request that goes on to an await looks as it did.
LEMMA AwaitHides ==
  ASSUME ClientTypes, IInv, Grown, NEW c \in Clients, ClientStep(c),
         NEW label \in {"metadata", "link"}, NEW children, Await(c, label, children),
         dir' = dir, want' = want, pc[c] \in {"open", "metadata", "link"}
  PROVE  UNCHANGED Tree!vars
  <1>1. /\ pc'[c] = label /\ seen' = seen /\ known' = known
    BY DEF Await, ClientTypes
  <1>2. Status(c)' = Status(c)
    BY <1>1 DEF Status
  <1>3. nodeOf'[dir'[c]] = nodeOf[dir[c]] /\ known \subseteq Handles
    BY DEF IInv, RequestInv, TableInv, Grown
  <1>4. Reached' = Reached
    BY <1>1, <1>3, ZenonT(30) DEF Reached, Grown
  <1>5. Comes(c, Status(c), nodeOf[dir[c]], want[c], seen[c], Reached)
    BY <1>1, <1>2, <1>3, <1>4, OneComes
  <1> QED
    BY <1>5, Stutters

\* A listing in the cache, for a request that takes it.
LEMMA KeptLists ==
  ASSUME IInv, OwnInv, nodeOf' = nodeOf, NEW i, CacheGet(i) # <<>>
  PROVE  Lists(CacheGet(i), nodeOf[i])
  BY DEF CacheGet, IInv, ListingsInv, Whole, Partial, OwnInv, Own, Lists

\* What the steps of one client have in common.
Stepping(c) ==
    /\ ClientTypes /\ IInv /\ IInv' /\ Grown /\ OwnInv /\ ClientStep(c)

\* Each action of a client, as the abstract tree sees it.
LEMMA ReaddirLooks ==
  ASSUME NEW c \in Clients, Stepping(c), Readdir(c)
  PROVE  Tree!Next \/ UNCHANGED Tree!vars
  <1>1. /\ pc[c] = "open" /\ UNCHANGED <<nodeOf, dir, want>>
        /\ GetEntries(c, dir[c], NoNode)
    BY DEF Readdir
  <1>2. want[c] = NoNode /\ Status(c) = "reading"
    BY <1>1 DEF Stepping, IInv, StreamInv, Status
  <1>3. CASE CacheGet(dir[c]) # <<>>
    <2>1. Serve(c, CacheGet(dir[c]))
      BY <1>1, <1>3 DEF GetEntries, Use
    <2>2. Lists(CacheGet(dir[c]), nodeOf[dir[c]])
      BY <1>1, <1>3, KeptLists DEF Stepping
    <2> QED
      BY <1>1, <1>2, <2>1, <2>2, ServeReads DEF Stepping
  <1>4. CASE CacheGet(dir[c]) = <<>>
    <2>1. Await(c, "metadata", <<>>)
      BY <1>1, <1>4 DEF GetEntries
    <2> QED
      BY <1>1, <2>1, AwaitHides DEF Stepping
  <1> QED
    BY <1>3, <1>4

LEMMA OpendirLooks ==
  ASSUME NEW c \in Clients, Stepping(c), NEW i, Opendir(c, i)
  PROVE  Tree!Next
  <1>1. /\ pc[c] = "idle" /\ i \in known /\ nodeOf[i] \in Dirs
        /\ pc'[c] = "open" /\ dir'[c] = i
        /\ UNCHANGED <<nodeOf, known, want, seen>>
    BY DEF Opendir, KnownDir, Stepping, ClientTypes
  <1>2. want[c] = NoNode
    BY <1>1 DEF Stepping, IInv, StreamInv
  <1>3. Status(c) = "idle" /\ Status(c)' = "reading"
    BY <1>1, <1>2 DEF Status
  <1>4. Reached' = Reached /\ nodeOf[i] \in Reached \cap Dirs
    BY <1>1 DEF Reached
  <1>5. Comes(c, "reading", nodeOf[i], want[c], seen[c], Reached)
    BY <1>1, <1>3, <1>4, OneComes DEF Stepping
  <1> QED
    BY <1>3, <1>4, <1>5, Asks DEF Stepping

LEMMA LookupLooks ==
  ASSUME NEW c \in Clients, Stepping(c), NEW i, NEW name \in Names, Lookup(c, i, name)
  PROVE  Tree!Next
  <1>1. /\ pc[c] = "idle" /\ i \in known /\ nodeOf[i] \in Dirs
        /\ dir'[c] = i /\ want'[c] = name /\ nodeOf' = nodeOf
        /\ IF nodeOf[i] \in OnTheFly THEN Await(c, "metadata", <<>>)
           ELSE GetEntries(c, i, name)
    BY DEF Lookup, KnownDir, Stepping, ClientTypes
  <1>2. name \in Nodes /\ name # NoNode
    BY BoundAssumption, TreeAssumption
  <1>3. Status(c) = "idle" /\ nodeOf[i] \in Reached \cap Dirs
    BY <1>1 DEF Status, Reached
  <1>4. CASE Await(c, "metadata", <<>>)
    <2>1. pc'[c] = "metadata" /\ seen' = seen /\ known' = known
      BY <1>4 DEF Await, Stepping, ClientTypes
    <2>2. Status(c)' = "looking" /\ Reached' = Reached
      BY <1>1, <1>2, <2>1 DEF Status, Reached
    <2>3. Comes(c, "looking", nodeOf[i], name, seen[c], Reached)
      BY <1>1, <2>1, <2>2, OneComes DEF Stepping
    <2> QED
      BY <1>2, <1>3, <2>3, Asks DEF Stepping
  <1>5. CASE CacheGet(i) # <<>> /\ Use(c, CacheGet(i), name)
    <2>1. Find(c, CacheGet(i), name)
      BY <1>2, <1>5 DEF Use
    <2>2. Lists(CacheGet(i), nodeOf[i])
      BY <1>1, <1>5, KeptLists DEF Stepping
    <2>3. \/ /\ name \in ToSet(Children[nodeOf[i]])
             /\ Comes(c, "found", nodeOf[i], name, seen[c], Reached \cup {name})
          \/ /\ nodeOf[i] \in Live \/ name \notin ToSet(Children[nodeOf[i]])
             /\ Comes(c, "none", nodeOf[i], name, seen[c], Reached)
      BY <1>1, <1>2, <2>1, <2>2, FindComes DEF Stepping
    <2> QED
      BY <1>2, <1>3, <2>3, Asks DEF Stepping
  <1> QED
    BY <1>1, <1>4, <1>5 DEF GetEntries

LEMMA MountArtifactLooks ==
  ASSUME NEW c \in Clients, Stepping(c), MountArtifact(c)
  PROVE  Tree!Next
  <1>1. PICK name, d : name = want[c] /\ d = nodeOf[dir[c]]
    OBVIOUS
  <1>2. /\ pc[c] = "metadata" /\ name # NoNode /\ name \in ToSet(Children[d])
        /\ nodeOf' = Append(nodeOf, name) /\ got'[c] = Len(nodeOf')
        /\ known' = known \cup {Len(nodeOf')} /\ pc'[c] = "answered"
        /\ UNCHANGED <<dir, want, seen>>
    BY <1>1 DEF MountArtifact, Stepping, ClientTypes
  <1>3. /\ dir[c] \in Handles /\ known \subseteq Handles /\ nodeOf \in Seq(Nodes)
    BY DEF Stepping, IInv, RequestInv, TableInv
  <1>4. Len(nodeOf') = Len(nodeOf) + 1 /\ nodeOf'[Len(nodeOf')] = name
    BY <1>2, <1>3
  <1>5. got'[c] # 0
    BY <1>2, <1>3, <1>4
  <1>6. Status(c) = "looking" /\ Status(c)' = "found"
    BY <1>1, <1>2, <1>5 DEF Status
  <1>7. Reached' = Reached \cup {name}
    <2>1. PICK n : n = Len(nodeOf')
      OBVIOUS
    <2>2. Reached' = Reached \cup {nodeOf'[i] : i \in {n}}
      BY <1>2, <1>3, <2>1, ReachedGrows DEF Stepping
    <2> QED
      BY <1>4, <2>1, <2>2
  <1>8. nodeOf'[dir'[c]] = d
    BY <1>1, <1>2, <1>3 DEF Stepping, Grown
  <1>9. Comes(c, "found", d, name, seen[c], Reached \cup {name})
    BY <1>1, <1>2, <1>6, <1>7, <1>8, OneComes DEF Stepping
  <1> QED
    BY <1>1, <1>2, <1>6, <1>9, Looks DEF Stepping

LEMMA ComputeLooks ==
  ASSUME NEW c \in Clients, Stepping(c), Compute(c)
  PROVE  Tree!Next \/ UNCHANGED Tree!vars
  <1>1. PICK i \in known, d \in Dirs, listing \in Seq(Nodes), table \in Seq(Nodes) :
            \E entries \in Seq(1 .. Len(table)), last \in Nat : \E new, children :
               ComputesTo(c, i, d, listing, table, entries, last, new, children)
    BY ComputeDoes DEF Stepping
  <1>2. PICK entries \in Seq(1 .. Len(table)), last \in Nat :
            \E new, children :
               ComputesTo(c, i, d, listing, table, entries, last, new, children)
    BY <1>1
  <1>3. PICK new, children :
            ComputesTo(c, i, d, listing, table, entries, last, new, children)
    BY <1>2
  <1>4. Lists(children, d)
    BY <1>3, ComputedLists
  <1>5. /\ d = nodeOf[dir[c]] /\ pc[c] \in {"metadata", "link"} /\ dir' = dir /\ want' = want
    BY <1>3 DEF ComputesTo
  <1>6. Await(c, "link", children) \/ Use(c, children, want[c])
    BY <1>3 DEF ComputesTo
  <1>7. CASE Await(c, "link", children)
    BY <1>5, <1>7, AwaitHides DEF Stepping
  <1>8. CASE Use(c, children, want[c]) /\ want[c] = NoNode
    <2>1. Serve(c, children) /\ Status(c) = "reading"
      BY <1>5, <1>8 DEF Use, Status
    <2> QED
      BY <1>4, <1>5, <1>8, <2>1, ServeReads DEF Stepping
  <1>9. CASE Use(c, children, want[c]) /\ want[c] # NoNode
    <2>1. PICK name \in Nodes : name = want[c]
      BY <1>9 DEF Stepping, ClientTypes
    <2>2. Find(c, children, name) /\ Status(c) = "looking" /\ want'[c] = name
      BY <1>5, <1>9, <2>1 DEF Use, Status
    <2>3. d = nodeOf'[dir'[c]]
      BY <1>5 DEF Stepping, IInv, RequestInv, TableInv, Grown
    <2>4. \/ /\ name \in ToSet(Children[d])
             /\ Comes(c, "found", d, name, seen[c], Reached \cup {name})
          \/ /\ d \in Live \/ name \notin ToSet(Children[d])
             /\ Comes(c, "none", d, name, seen[c], Reached)
      BY <1>4, <2>2, <2>3, FindComes DEF Stepping
    <2> QED
      BY <1>5, <2>1, <2>2, <2>4, Looks DEF Stepping
  <1> QED
    BY <1>6, <1>7, <1>8, <1>9

LEMMA FailLooks ==
  ASSUME NEW c \in Clients, Stepping(c), Fail(c)
  PROVE  Tree!Next
  <1>1. /\ pc[c] \in {"open", "metadata"} /\ pc'[c] = "error"
        /\ UNCHANGED <<nodeOf, known, dir, want, seen>>
    BY DEF Fail, Stepping, ClientTypes
  <1>2. Status(c) \in {"reading", "looking"} /\ Status(c)' = "error"
    BY <1>1 DEF Status
  <1>3. Reached' = Reached
    BY <1>1 DEF Reached
  <1>4. Comes(c, "error", nodeOf[dir[c]], want[c], seen[c], Reached)
    BY <1>1, <1>2, <1>3, OneComes DEF Stepping
  <1> QED
    BY <1>2, <1>4, Ends DEF Stepping

LEMMA DoneLooks ==
  ASSUME NEW c \in Clients, Stepping(c), Done(c)
  PROVE  Tree!Next
  <1>1. /\ pc[c] \in {"answered", "end", "error"} /\ pc'[c] = "idle"
        /\ dir'[c] = 1 /\ want'[c] = NoNode /\ seen'[c] = <<>>
        /\ UNCHANGED <<nodeOf, known>>
    BY DEF Done, Stepping, ClientTypes
  <1>2. Status(c) \in {"found", "none", "end", "error"} /\ Status(c)' = "idle"
    BY <1>1 DEF Status
  <1>3. Reached' = Reached
    BY <1>1 DEF Reached
  <1>4. nodeOf'[dir'[c]] = Root
    BY <1>1 DEF Stepping, OwnInv
  <1>5. Comes(c, "idle", Root, NoNode, <<>>, Reached)
    BY <1>1, <1>2, <1>3, <1>4, OneComes DEF Stepping
  <1> QED
    BY <1>2, <1>5, Ends DEF Stepping

\* Rows come and go unseen.
LEMMA RowsHide ==
  ASSUME UNCHANGED <<nodeOf, known, pc, dir, want, seen, got>>
  PROVE  UNCHANGED Tree!vars
  BY DEF Tree!vars, Status

\* Cached listings go on to be of children, in a table that grows.
LEMMA OwnKept ==
  ASSUME IInv, OwnInv, Grown, [Next]_vars
  PROVE  OwnInv'
  <1>1. /\ \A i \in Handles : nodeOf'[i] = nodeOf[i]
        /\ known \subseteq Handles /\ 1 \in known
    BY DEF Grown, IInv, TableInv
  <1>2. \A i \in DOMAIN held : /\ i \in Handles /\ held[i] \in Seq(Handles)
                               /\ Own(held[i], nodeOf[i])
    BY DEF IInv, ListingsInv, Whole, Partial, Handles, OwnInv
  <1>3. ASSUME NEW j \in DOMAIN held', j \in DOMAIN held, held'[j] = held[j]
        PROVE  Own(held[j], nodeOf[j])' /\ nodeOf'[j] = nodeOf[j]
    BY <1>1, <1>2, <1>3 DEF Own
  <1>4. nodeOf'[1] = Root
    BY <1>1 DEF OwnInv
  <1>5. CASE UNCHANGED listings
    BY <1>3, <1>4, <1>5 DEF listings, OwnInv
  <1>6. CASE ~UNCHANGED listings
    <2>1. PICK c \in Clients : Compute(c)
      <3>1. ASSUME NEW c \in Clients, NEW i \in Inodes, Opendir(c, i)
            PROVE  UNCHANGED listings
        BY <3>1 DEF Opendir
      <3>2. ASSUME NEW c \in Clients, NEW i \in Inodes, NEW n \in Names, Lookup(c, i, n)
            PROVE  UNCHANGED listings
        BY <3>2 DEF Lookup
      <3>3. ASSUME NEW c \in Clients,
                   Readdir(c) \/ MountArtifact(c) \/ Fail(c) \/ Done(c)
            PROVE  UNCHANGED listings
        BY <3>3 DEF Readdir, MountArtifact, Fail, Done
      <3>4. ASSUME NEW n \in RowNodes, Remember(n)
            PROVE  UNCHANGED listings
        BY <3>4 DEF Remember
      <3>5. ASSUME NEW i \in Inodes, NEW n \in RowNodes, Unlink(i, n)
            PROVE  UNCHANGED listings
        BY <3>5 DEF Unlink
      <3>6. ~UNCHANGED vars
        BY <1>6 DEF vars, listings
      <3> QED
        BY <1>6, <3>1, <3>2, <3>3, <3>4, <3>5, <3>6 DEF Next, Step
    <2>2. PICK i \in known, d \in Dirs, listing \in Seq(Nodes), table \in Seq(Nodes) :
            \E entries \in Seq(1 .. Len(table)), last \in Nat : \E new, children :
               ComputesTo(c, i, d, listing, table, entries, last, new, children)
      BY <2>1, ComputeDoes
    <2>3. PICK entries \in Seq(1 .. Len(table)), last \in Nat :
            \E new, children :
               ComputesTo(c, i, d, listing, table, entries, last, new, children)
      BY <2>2
    <2>4. PICK new, children :
            ComputesTo(c, i, d, listing, table, entries, last, new, children)
      BY <2>3
    <2>5. Lists(children, d) /\ d = nodeOf[i]
      BY <2>4, ComputedLists DEF ComputesTo
    <2>6. CacheSet(i, children)
      BY <1>6, <2>4 DEF ComputesTo, Store
    <2>7. Own(children, nodeOf[i])' /\ nodeOf'[i] = nodeOf[i]
      BY <1>1, <2>5 DEF Own, Lists
    <2>8. ASSUME NEW j \in DOMAIN held'
          PROVE  Own(held[j], nodeOf[j])'
      <3>1. \/ j = i /\ held'[j] = children
            \/ j \in DOMAIN held /\ held'[j] = held[j]
        BY <2>6, <2>8, CacheSetHolds
      <3> QED
        BY <1>3, <2>7, <2>8, <3>1 DEF Own
    <2> QED
      BY <1>4, <2>8 DEF OwnInv
  <1> QED
    BY <1>5, <1>6

\* Clients cannot tell the tree, with its inodes allocated on demand and its
\* listings computed by several of them at once, interrupted, cached, evicted and
\* computed again, from one that is there from the beginning.
THEOREM TreeLooksStatic == Spec => LooksStatic
  <1>1. Init => Tree!Init /\ OwnInv
    <2> SUFFICES ASSUME Init PROVE Tree!Init /\ OwnInv
      OBVIOUS
    <2>1. {nodeOf[i] : i \in known} = {Root}
      BY DEF Init
    <2>2. OwnInv
      BY DEF Init, CacheInit, OwnInv
    <2> QED
      BY <2>1, <2>2 DEF Init, Tree!Init, Status
  <1>2. IInv /\ IInv' /\ TypeOK /\ OwnInv /\ [Next]_vars => [Tree!Next]_(Tree!vars)
    <2> SUFFICES ASSUME IInv, IInv', TypeOK, OwnInv, [Next]_vars
                 PROVE  Tree!Next \/ UNCHANGED Tree!vars
      OBVIOUS
    <2>1. Grown /\ ClientTypes
      BY NextKeeps, TypeParts DEF Types
    <2>2. ASSUME NEW c \in Clients,
                 \/ \E i \in Inodes : Opendir(c, i)
                 \/ \E i \in Inodes, n \in Names : Lookup(c, i, n)
                 \/ Step(c)
          PROVE  Tree!Next \/ UNCHANGED Tree!vars
      <3>1. Stepping(c)
        BY <2>1, <2>2, RequestSteps DEF Stepping
      <3> QED
        BY <2>2, <3>1, OpendirLooks, LookupLooks, ReaddirLooks, MountArtifactLooks,
           ComputeLooks, FailLooks, DoneLooks DEF Step
    <2>3. ASSUME NEW n \in RowNodes, Remember(n)
          PROVE  UNCHANGED Tree!vars
      BY <2>3, RowsHide DEF Remember, client
    <2>4. ASSUME NEW i \in Inodes, NEW n \in RowNodes, Unlink(i, n)
          PROVE  UNCHANGED Tree!vars
      BY <2>4, RowsHide DEF Unlink
    <2>5. CASE UNCHANGED vars
      BY <2>5, RowsHide DEF vars, client
    <2>6. CASE Next
      BY <2>2, <2>3, <2>4, <2>6 DEF Next
    <2> QED
      BY <2>5, <2>6
  <1>3. IInv /\ OwnInv /\ [Next]_vars => OwnInv'
    BY NextKeeps, OwnKept
  <1> QED
    BY <1>1, <1>2, <1>3, TreeInvariance, TreeTypes, PTL DEF Spec, LooksStatic, Tree!Spec

=============================================================================
