-------------------------- MODULE SelectionProofs --------------------------
(***************************************************************************)
(* Induction and recursion on the naturals, with sets for predicates, as   *)
(* the other proofs use them, and what Selection's recursive function      *)
(* returns.                                                                *)
(***************************************************************************)

EXTENDS Selection, SequencesExt, FiniteSetTheorems, SequenceTheorems, TLAPS

-----------------------------------------------------------------------------
(* Induction on the naturals, with a set for the predicate.                *)

\* A set of naturals has a least element.
LEMMA Smallest ==
  ASSUME NEW T, T \subseteq Nat, T # {}
  PROVE  \E n \in T : \A m \in T : n <= m
  <1>1. PICK b \in T : TRUE
    OBVIOUS
  <1> DEFINE Below == {X \in SUBSET (0 .. b) : \E n \in T : X = 0 .. n}
             R == StrictSubsetOrdering(0 .. b)
  <1>2. IsWellFoundedOn(R, SUBSET (0 .. b))
    <2>1. b \in Int /\ 0 \in Int
      OBVIOUS
    <2>2. IsFiniteSet(0 .. b)
      BY <2>1, FS_Interval
    <2>3. FiniteSubsetsOf(0 .. b) = SUBSET (0 .. b)
      BY <2>2, FS_FiniteSubsetsOfFinite
    <2> QED
      BY <2>3, FS_StrictSubsetOrderingWellFounded
  <1>3. Below \subseteq SUBSET (0 .. b) /\ 0 .. b \in Below
    BY <1>1
  <1>4. PICK X \in Below : \A Y \in Below : ~(<<Y, X>> \in R)
    BY <1>2, <1>3, WFMin
  <1>5. PICK n \in T : X = 0 .. n
    BY <1>4
  <1>6. ASSUME NEW m \in T, m < n
        PROVE  FALSE
    <2>1. 0 .. m \subseteq 0 .. n /\ n \notin 0 .. m /\ n \in 0 .. n
      BY <1>6
    <2>2. 0 .. m \in Below /\ 0 .. m # X
      BY <1>5, <2>1
    <2>3. <<0 .. m, X>> \in R
      BY <1>5, <2>1, <2>2 DEF StrictSubsetOrdering
    <2> QED
      BY <1>4, <2>2, <2>3
  <1> QED
    BY <1>5, <1>6

\* A set of naturals with 0, and with n + 1 whenever it has n, up to N.
LEMMA SetInduction ==
  ASSUME NEW N \in Nat, NEW T, T \subseteq Nat, 0 \in T,
         \A n \in 0 .. N - 1 : n \in T => n + 1 \in T
  PROVE  0 .. N \subseteq T
  <1> DEFINE Left == (0 .. N) \ T
  <1> SUFFICES ASSUME Left # {} PROVE FALSE
    OBVIOUS
  <1> HIDE DEF Left
  <1>1. Left \subseteq Nat
    BY DEF Left
  <1>2. PICK n \in Left : \A m \in Left : n <= m
    BY <1>1, Smallest
  <1>3. n \in 0 .. N /\ n \notin T /\ n # 0
    BY DEF Left
  <1>4. n - 1 \in 0 .. N - 1 /\ n - 1 \notin Left /\ n - 1 \in 0 .. N
    BY <1>2, <1>3
  <1>5. n - 1 \in T
    BY <1>4 DEF Left
  <1> QED
    BY <1>3, <1>4, <1>5

-----------------------------------------------------------------------------
(* Recursion on the naturals.                                              *)

\* f has that value at 0, and each value is computed from the one before.
Follows(f, base, step, N) ==
    f[0] = base /\ \A k \in 1 .. N : f[k] = step[<<f[k - 1], k>>]

\* A function is defined by its value at 0, and by how each of its values is
\* computed from the one before: the model's recursive functions choose one.
LEMMA Recursion ==
  ASSUME NEW V, NEW N \in Nat, NEW base \in V, NEW step \in [V \X (1 .. N) -> V]
  PROVE  \E f \in [0 .. N -> V] : Follows(f, base, step, N)
  <1> DEFINE Begun == {n \in 0 .. N : \E f \in [0 .. n -> V] :
                          f[0] = base /\ \A k \in 1 .. n : f[k] = step[<<f[k - 1], k>>]}
  <1>1. 0 \in Begun
    <2> DEFINE f == [k \in 0 .. 0 |-> base]
    <2>1. f \in [0 .. 0 -> V] /\ f[0] = base /\ 1 .. 0 = {}
      OBVIOUS
    <2> HIDE DEF f
    <2>2. \A k \in 1 .. 0 : f[k] = step[<<f[k - 1], k>>]
      BY <2>1
    <2>3. 0 \in 0 .. N
      OBVIOUS
    <2> QED
      BY <2>1, <2>2, <2>3
  <1>2. ASSUME NEW n \in 0 .. N - 1, n \in Begun
        PROVE  n + 1 \in Begun
    <2>1. PICK f \in [0 .. n -> V] :
              f[0] = base /\ \A k \in 1 .. n : f[k] = step[<<f[k - 1], k>>]
      BY <1>2
    <2>2. n \in Nat /\ n + 1 \in 0 .. N /\ n + 1 \in 1 .. N
      OBVIOUS
    <2> DEFINE next == step[<<f[n], n + 1>>]
               g == [k \in 0 .. n + 1 |-> IF k = n + 1 THEN next ELSE f[k]]
    <2>3. next \in V
      <3>1. <<f[n], n + 1>> \in V \X (1 .. N)
        BY <2>1, <2>2
      <3> QED
        BY <3>1
    <2>4. g \in [0 .. n + 1 -> V] /\ g[0] = base
      BY <2>1, <2>2, <2>3
    <2>5. ASSUME NEW k \in 1 .. n + 1
          PROVE  g[k] = step[<<g[k - 1], k>>]
      <3>1. g[k - 1] = f[k - 1]
        BY <2>2
      <3>2. CASE k = n + 1
        BY <2>2, <3>1, <3>2, SMTT(30)
      <3>3. CASE k \in 1 .. n
        BY <2>1, <2>2, <3>1, <3>3
      <3> QED
        BY <2>2, <3>2, <3>3
    <2> HIDE DEF g
    <2> QED
      BY <2>2, <2>4, <2>5
  <1>3. 0 .. N \subseteq Begun
    <2>1. Begun \subseteq Nat
      OBVIOUS
    <2> HIDE DEF Begun
    <2> QED
      BY <1>1, <1>2, <2>1, SetInduction
  <1>4. \E f \in [0 .. N -> V] :
           f[0] = base /\ \A k \in 1 .. N : f[k] = step[<<f[k - 1], k>>]
    <2>1. N \in 0 .. N
      OBVIOUS
    <2> QED
      BY <1>3, <2>1
  <1> QED
    BY <1>4 DEF Follows

-----------------------------------------------------------------------------
(* Sequences.                                                              *)

\* The items of a sequence, by their places.
LEMMA Places ==
  ASSUME NEW S, NEW s \in Seq(S)
  PROVE  /\ \A i \in 1 .. Len(s) : s[i] \in ToSet(s)
         /\ \A x \in ToSet(s) : \E i \in 1 .. Len(s) : x = s[i]
  BY DEF ToSet

\* all is s, and then t.
Joined(s, t, all) ==
    /\ all = s \o t /\ Len(all) = Len(s) + Len(t)
    /\ \A k \in 1 .. Len(s) : k \in 1 .. Len(all) /\ all[k] = s[k]
    /\ \A k \in 1 .. Len(t) : Len(s) + k \in 1 .. Len(all) /\ all[Len(s) + k] = t[k]
    /\ \A k \in 1 .. Len(all) :
          k \in 1 .. Len(s) \/ \E j \in 1 .. Len(t) : k = Len(s) + j
    /\ ToSet(all) = ToSet(s) \cup ToSet(t)

LEMMA Join ==
  ASSUME NEW S, NEW s \in Seq(S), NEW t \in Seq(S)
  PROVE  \E all \in Seq(S) : Joined(s, t, all)
  <1>1. PICK a \in Nat, b \in Nat : a = Len(s) /\ b = Len(t)
    OBVIOUS
  <1> DEFINE all == s \o t
  <1>2. all \in Seq(S) /\ Len(all) = a + b
    BY <1>1
  <1>3. \A k \in 1 .. a : k \in 1 .. a + b /\ all[k] = s[k]
    BY <1>1
  <1>4. ASSUME NEW k \in 1 .. b
        PROVE  a + k \in 1 .. a + b /\ all[a + k] = t[k]
    BY <1>1
  <1> HIDE DEF all
  <1>5. ASSUME NEW k \in 1 .. a + b
        PROVE  k \in 1 .. a \/ \E j \in 1 .. b : k = a + j
    <2>1. k \notin 1 .. a => k - a \in 1 .. b /\ k = a + (k - a)
      OBVIOUS
    <2> QED
      BY <2>1
  <1>6. ToSet(all) = ToSet(s) \cup ToSet(t)
    <2>1. ASSUME NEW x \in ToSet(all)
          PROVE  x \in ToSet(s) \cup ToSet(t)
      <3>1. PICK k \in 1 .. a + b : x = all[k]
        BY <1>2, Places
      <3>2. CASE k \in 1 .. a
        BY <1>1, <1>3, <3>1, <3>2, Places
      <3>3. CASE \E j \in 1 .. b : k = a + j
        BY <1>1, <1>4, <3>1, <3>3, Places
      <3> QED
        BY <1>5, <3>2, <3>3
    <2>2. ASSUME NEW x \in ToSet(s)
          PROVE  x \in ToSet(all)
      <3>1. PICK k \in 1 .. a : x = s[k]
        BY <1>1, Places
      <3> QED
        BY <1>2, <1>3, <3>1, Places
    <2>3. ASSUME NEW x \in ToSet(t)
          PROVE  x \in ToSet(all)
      <3>1. PICK k \in 1 .. b : x = t[k]
        BY <1>1, Places
      <3>2. a + k \in 1 .. a + b /\ all[a + k] = x
        BY <1>4, <3>1
      <3> QED
        BY <1>2, <3>2, Places
    <2> QED
      BY <2>1, <2>2, <2>3
  <1>7. Joined(s, t, all)
    BY <1>1, <1>2, <1>3, <1>4, <1>5, <1>6, ZenonT(30) DEF Joined, all
  <1> QED
    BY <1>2, <1>7

-----------------------------------------------------------------------------
(* Selections.                                                             *)

\* Kept's recursion has a value: what it computes at each item.
LEMMA KeptStep ==
  ASSUME NEW S, NEW s \in Seq(S), NEW R
  PROVE  /\ Kept(s, R) \in [0 .. Len(s) -> Seq(S)]
         /\ Kept(s, R)[0] = <<>>
         /\ \A k \in 1 .. Len(s) :
               Kept(s, R)[k] = IF s[k] \in R THEN Append(Kept(s, R)[k - 1], s[k])
                                             ELSE Kept(s, R)[k - 1]
  <1> DEFINE N == Len(s)
             Item(f, k) == IF k = 0 THEN <<>>
                           ELSE IF s[k] \in R THEN Append(f[k - 1], s[k])
                           ELSE f[k - 1]
             step == [p \in Seq(S) \X (1 .. N) |->
                         IF s[p[2]] \in R THEN Append(p[1], s[p[2]]) ELSE p[1]]
  <1>1. N \in Nat /\ <<>> \in Seq(S) /\ \A k \in 1 .. N : s[k] \in S
    OBVIOUS
  <1>2. step \in [Seq(S) \X (1 .. N) -> Seq(S)]
    BY <1>1
  <1> HIDE DEF N
  <1>3. PICK f \in [0 .. N -> Seq(S)] :
            f[0] = <<>> /\ \A k \in 1 .. N : f[k] = step[<<f[k - 1], k>>]
    <2>1. PICK V : V = Seq(S)
      OBVIOUS
    <2> HIDE DEF step
    <2>2. <<>> \in V /\ step \in [V \X (1 .. N) -> V]
      BY <1>1, <1>2, <2>1
    <2>3. \E f \in [0 .. N -> V] : Follows(f, <<>>, step, N)
      BY <1>1, <2>2, Recursion
    <2> QED
      BY <2>1, <2>3 DEF Follows
  <1>4. \A k \in 1 .. N : f[k - 1] \in Seq(S) /\ <<f[k - 1], k>> \in Seq(S) \X (1 .. N)
    BY <1>1, <1>3
  <1>5. \A k \in 0 .. N : f[k] = Item(f, k)
    <2>1. \A k \in 1 .. N : step[<<f[k - 1], k>>] = Item(f, k)
      BY <1>1, <1>4
    <2>2. \A k \in 0 .. N : k = 0 \/ k \in 1 .. N
      BY <1>1
    <2> HIDE DEF step
    <2> QED
      BY <1>3, <2>1, <2>2
  <1>6. f = [k \in 0 .. N |-> Item(f, k)]
    BY <1>5
  <1> DEFINE kept == CHOOSE g : g = [k \in 0 .. N |-> Item(g, k)]
  <1>7. kept = [k \in 0 .. N |-> Item(kept, k)]
    BY <1>6
  <1>8. kept = Kept(s, R)
    BY DEF Kept, N
  <1> HIDE DEF kept
  <1>9. kept[0] = <<>> /\ \A k \in 1 .. N : kept[k] = IF s[k] \in R THEN Append(kept[k - 1], s[k])
                                                    ELSE kept[k - 1]
    <2>1. 0 \in 0 .. N /\ \A k \in 1 .. N : k \in 0 .. N /\ k # 0
      BY <1>1
    <2>2. \A k \in 0 .. N : kept[k] = Item(kept, k)
      BY <1>7
    <2> QED
      BY <2>1, <2>2
  <1>10. \A k \in 0 .. N : kept[k] \in Seq(S)
    <2> DEFINE Good == {n \in 0 .. N : kept[n] \in Seq(S)}
    <2>1. Good \subseteq Nat /\ 0 \in Good
      <3>1. 0 \in 0 .. N
        BY <1>1
      <3>2. kept[0] \in Seq(S)
        BY <1>1, <1>9
      <3> QED
        BY <3>1, <3>2
    <2>2. ASSUME NEW n \in 0 .. N - 1, n \in Good
          PROVE  n + 1 \in Good
      <3>1. n + 1 \in 1 .. N /\ n + 1 \in 0 .. N /\ n + 1 - 1 = n
        BY <1>1
      <3>2. kept[n] \in Seq(S) /\ s[n + 1] \in S
        BY <1>1, <2>2, <3>1
      <3>3. Append(kept[n], s[n + 1]) \in Seq(S)
        BY <3>2
      <3>4. kept[n + 1] = IF s[n + 1] \in R THEN Append(kept[n], s[n + 1]) ELSE kept[n]
        BY <1>9, <3>1
      <3> QED
        BY <3>1, <3>2, <3>3, <3>4
    <2>3. 0 .. N \subseteq Good
      <3> HIDE DEF Good
      <3> QED
        BY <1>1, <2>1, <2>2, SetInduction
    <2> QED
      BY <2>3
  <1>11. kept \in [0 .. N -> Seq(S)]
    BY <1>7, <1>10
  <1> QED
    BY <1>8, <1>9, <1>11 DEF N

\* What is selected is a sequence of items.
LEMMA SelectedType ==
  ASSUME NEW S, NEW s \in Seq(S), NEW R
  PROVE  Selected(s, R) \in Seq(S)
  <1>1. Len(s) \in Nat /\ Len(s) \in 0 .. Len(s)
    OBVIOUS
  <1> QED
    BY <1>1, KeptStep DEF Selected

\* It has the items with a row and no others, and each of them once.
LEMMA SelectedItems ==
  ASSUME NEW S, NEW s \in Seq(S), NEW R
  PROVE  /\ \A k \in 1 .. Len(Selected(s, R)) :
                Selected(s, R)[k] \in R /\ \E i \in 1 .. Len(s) : Selected(s, R)[k] = s[i]
         /\ \A i \in 1 .. Len(s) :
                s[i] \in R => \E k \in 1 .. Len(Selected(s, R)) : Selected(s, R)[k] = s[i]
  <1> DEFINE N == Len(s)
             kept == Kept(s, R)
             From(n) == /\ \A k \in 1 .. Len(kept[n]) :
                              kept[n][k] \in R /\ \E i \in 1 .. n : kept[n][k] = s[i]
                        /\ \A i \in 1 .. n :
                              s[i] \in R => \E k \in 1 .. Len(kept[n]) : kept[n][k] = s[i]
             Good == {n \in 0 .. N : From(n)}
  <1>1. N \in Nat
    OBVIOUS
  <1>2. /\ kept \in [0 .. N -> Seq(S)]
        /\ kept[0] = <<>>
        /\ \A k \in 1 .. N :
              kept[k] = IF s[k] \in R THEN Append(kept[k - 1], s[k]) ELSE kept[k - 1]
    BY KeptStep
  <1> HIDE DEF kept
  <1>3. 0 \in Good /\ Good \subseteq Nat
    BY <1>1, <1>2
  <1>4. ASSUME NEW n \in 0 .. N - 1, n \in Good
        PROVE  n + 1 \in Good
    <2>1. n \in Nat /\ n + 1 \in 1 .. N /\ n + 1 \in 0 .. N /\ n \in 0 .. N /\ n + 1 - 1 = n
      BY <1>1
    <2>2. From(n) /\ kept[n] \in Seq(S) /\ Len(kept[n]) \in Nat /\ s[n + 1] \in S
      <3>1. From(n)
        BY <1>4
      <3>2. kept[n] \in Seq(S) /\ s[n + 1] \in S
        BY <1>2, <2>1
      <3> QED
        BY <3>1, <3>2
    <2>3. CASE s[n + 1] \notin R
      <3>1. kept[n + 1] = kept[n]
        BY <1>2, <2>1, <2>3
      <3>2. \A i \in 1 .. n + 1 : s[i] \in R => i \in 1 .. n
        BY <2>1, <2>3
      <3>3. \A i \in 1 .. n : i \in 1 .. n + 1
        BY <2>1
      <3>4. From(n + 1)
        BY <2>2, <3>1, <3>2, <3>3
      <3> QED
        BY <2>1, <3>4
    <2>4. CASE s[n + 1] \in R
      <3>1. kept[n + 1] = Append(kept[n], s[n + 1])
        <4>1. kept[n + 1] = IF s[n + 1] \in R THEN Append(kept[n + 1 - 1], s[n + 1])
                            ELSE kept[n + 1 - 1]
          BY <1>2, <2>1
        <4> QED
          BY ONLY <2>1, <2>4, <4>1
      <3>2. /\ Len(kept[n + 1]) = Len(kept[n]) + 1
            /\ \A k \in 1 .. Len(kept[n]) : kept[n + 1][k] = kept[n][k]
            /\ kept[n + 1][Len(kept[n]) + 1] = s[n + 1]
        BY <2>2, <3>1
      <3>3. \A i \in 1 .. n + 1 : i = n + 1 \/ i \in 1 .. n
        BY <2>1
      <3>4. \A k \in 1 .. Len(kept[n + 1]) : k = Len(kept[n]) + 1 \/ k \in 1 .. Len(kept[n])
        BY <2>2, <3>2
      <3>5. \A k \in 1 .. Len(kept[n + 1]) :
               kept[n + 1][k] \in R /\ \E i \in 1 .. n + 1 : kept[n + 1][k] = s[i]
        <4>1. \A k \in 1 .. Len(kept[n]) :
                 kept[n][k] \in R /\ \E i \in 1 .. n : kept[n][k] = s[i]
          BY <2>2
        <4>2. n + 1 \in 1 .. n + 1 /\ \A i \in 1 .. n : i \in 1 .. n + 1
          BY <2>1
        <4> QED
          BY <2>4, <3>2, <3>4, <4>1, <4>2
      <3>6. \A i \in 1 .. n + 1 :
               s[i] \in R => \E k \in 1 .. Len(kept[n + 1]) : kept[n + 1][k] = s[i]
        BY <2>1, <2>2, <3>2, <3>3, SMTT(30)
      <3> QED
        BY <2>1, <3>5, <3>6
    <2> QED
      BY <2>3, <2>4
  <1>5. N \in Good
    <2>1. 0 .. N \subseteq Good
      <3> HIDE DEF Good
      <3> QED
        BY <1>1, <1>3, <1>4, SetInduction
    <2> QED
      BY <1>1, <2>1
  <1> QED
    BY <1>5 DEF Selected, kept, N

\* The items of one sequence are in the other, each at the place it was at, or after.
MovedBack(s, t) ==
    \A k \in 1 .. Len(s) : \E j \in 1 .. Len(t) : k <= j /\ t[j] = s[k]

\* Rows that come in move an item back, never forward.
LEMMA SelectedAhead ==
  ASSUME NEW S, NEW s \in Seq(S), NEW R, NEW more, R \subseteq more
  PROVE  MovedBack(Selected(s, R), Selected(s, more))
  <1> DEFINE N == Len(s)
             old == Kept(s, R)
             new == Kept(s, more)
             Ahead(n) == /\ Len(old[n]) <= Len(new[n])
                         /\ \A k \in 1 .. Len(old[n]) :
                               \E j \in 1 .. Len(new[n]) : k <= j /\ new[n][j] = old[n][k]
             Good == {n \in 0 .. N : Ahead(n)}
  <1>1. N \in Nat
    OBVIOUS
  <1>2. /\ old \in [0 .. N -> Seq(S)]
        /\ old[0] = <<>>
        /\ \A k \in 1 .. N :
              old[k] = IF s[k] \in R THEN Append(old[k - 1], s[k]) ELSE old[k - 1]
    BY KeptStep
  <1>3. /\ new \in [0 .. N -> Seq(S)]
        /\ new[0] = <<>>
        /\ \A k \in 1 .. N :
              new[k] = IF s[k] \in more THEN Append(new[k - 1], s[k]) ELSE new[k - 1]
    BY KeptStep
  <1> HIDE DEF old, new
  <1>4. 0 \in Good /\ Good \subseteq Nat
    BY <1>1, <1>2, <1>3
  <1>5. ASSUME NEW n \in 0 .. N - 1, n \in Good
        PROVE  n + 1 \in Good
    <2>1. n \in Nat /\ n + 1 \in 1 .. N /\ n + 1 \in 0 .. N /\ n \in 0 .. N /\ n + 1 - 1 = n
      BY <1>1
    <2>2. PICK a \in Seq(S), b \in Seq(S) : a = old[n] /\ b = new[n]
      BY <1>2, <1>3, <2>1
    <2>3. PICK x \in S : x = s[n + 1]
      BY <2>1
    <2>4. /\ Len(a) <= Len(b)
          /\ \A k \in 1 .. Len(a) : \E j \in 1 .. Len(b) : k <= j /\ b[j] = a[k]
      <3>1. Ahead(n)
        BY <1>5
      <3> QED
        BY <2>2, <3>1
    <2>5. old[n + 1] = IF x \in R THEN Append(a, x) ELSE a
      <3>1. old[n + 1] = IF s[n + 1] \in R THEN Append(old[n + 1 - 1], s[n + 1])
                         ELSE old[n + 1 - 1]
        BY <1>2, <2>1
      <3> QED
        BY <2>1, <2>2, <2>3, <3>1
    <2>6. new[n + 1] = IF x \in more THEN Append(b, x) ELSE b
      <3>1. new[n + 1] = IF s[n + 1] \in more THEN Append(new[n + 1 - 1], s[n + 1])
                         ELSE new[n + 1 - 1]
        BY <1>3, <2>1
      <3> QED
        BY <2>1, <2>2, <2>3, <3>1
    <2>7. /\ Len(Append(a, x)) = Len(a) + 1 /\ Len(Append(b, x)) = Len(b) + 1
          /\ \A k \in 1 .. Len(a) : Append(a, x)[k] = a[k]
          /\ \A k \in 1 .. Len(b) : Append(b, x)[k] = b[k]
          /\ Append(a, x)[Len(a) + 1] = x /\ Append(b, x)[Len(b) + 1] = x
          /\ Len(a) \in Nat /\ Len(b) \in Nat
      OBVIOUS
    <2>8. Ahead(n + 1)
      <3>1. CASE x \in R
        <4>1. old[n + 1] = Append(a, x) /\ new[n + 1] = Append(b, x)
          BY <2>5, <2>6, <3>1
        <4>2. ASSUME NEW k \in 1 .. Len(a) + 1
              PROVE  \E j \in 1 .. Len(b) + 1 : k <= j /\ Append(b, x)[j] = Append(a, x)[k]
          <5>1. CASE k = Len(a) + 1
            <6>1. Len(b) + 1 \in 1 .. Len(b) + 1 /\ k <= Len(b) + 1
              BY <2>4, <2>7, <5>1
            <6> QED
              BY <2>7, <5>1, <6>1
          <5>2. CASE k \in 1 .. Len(a)
            <6>1. PICK j \in 1 .. Len(b) : k <= j /\ b[j] = a[k]
              BY <2>4, <5>2
            <6>2. j \in 1 .. Len(b) + 1
              BY <2>7
            <6> QED
              BY <2>7, <5>2, <6>1, <6>2
          <5> QED
            BY <2>7, <5>1, <5>2
        <4> QED
          BY <2>4, <2>7, <4>1, <4>2, SMTT(30)
      <3>2. CASE x \notin R /\ x \in more
        <4>1. old[n + 1] = a /\ new[n + 1] = Append(b, x)
          BY <2>5, <2>6, <3>2
        <4>2. ASSUME NEW k \in 1 .. Len(a)
              PROVE  \E j \in 1 .. Len(b) + 1 : k <= j /\ Append(b, x)[j] = a[k]
          <5>1. PICK j \in 1 .. Len(b) : k <= j /\ b[j] = a[k]
            BY <2>4
          <5>2. j \in 1 .. Len(b) + 1
            BY <2>7
          <5> QED
            BY <2>7, <5>1, <5>2
        <4> QED
          BY <2>4, <2>7, <4>1, <4>2
      <3>3. CASE x \notin more
        <4>1. old[n + 1] = a /\ new[n + 1] = b
          BY <2>5, <2>6, <3>3
        <4> QED
          BY <2>4, <4>1
      <3> QED
        BY <3>1, <3>2, <3>3
    <2> QED
      BY <2>1, <2>8
  <1>6. N \in Good
    <2>1. 0 .. N \subseteq Good
      <3> HIDE DEF Good
      <3> QED
        BY <1>1, <1>4, <1>5, SetInduction
    <2> QED
      BY <1>1, <2>1
  <1> QED
    BY <1>6 DEF MovedBack, Selected, old, new, N

\* Each item is selected once, when the list has it once.
LEMMA SelectedOnce ==
  ASSUME NEW S, NEW s \in Seq(S), NEW R,
         \A i, j \in 1 .. Len(s) : s[i] = s[j] => i = j
  PROVE  \A i, j \in 1 .. Len(Selected(s, R)) :
            Selected(s, R)[i] = Selected(s, R)[j] => i = j
  <1> DEFINE N == Len(s)
             kept == Kept(s, R)
             Once(n) ==
                /\ \A k \in 1 .. Len(kept[n]) : \E i \in 1 .. n : kept[n][k] = s[i]
                /\ \A i, j \in 1 .. Len(kept[n]) : kept[n][i] = kept[n][j] => i = j
             Good == {n \in 0 .. N : Once(n)}
  <1>1. N \in Nat
    OBVIOUS
  <1>2. /\ kept \in [0 .. N -> Seq(S)]
        /\ kept[0] = <<>>
        /\ \A k \in 1 .. N :
              kept[k] = IF s[k] \in R THEN Append(kept[k - 1], s[k]) ELSE kept[k - 1]
    BY KeptStep
  <1> HIDE DEF kept
  <1>3. 0 \in Good /\ Good \subseteq Nat
    BY <1>1, <1>2
  <1>4. ASSUME NEW n \in 0 .. N - 1, n \in Good
        PROVE  n + 1 \in Good
    <2>1. n \in Nat /\ n + 1 \in 1 .. N /\ n + 1 \in 0 .. N /\ n \in 0 .. N /\ n + 1 - 1 = n
      BY <1>1
    <2>2. PICK a \in Seq(S) : a = kept[n]
      BY <1>2, <2>1
    <2>3. PICK x \in S : x = s[n + 1]
      BY <2>1
    <2>4. kept[n + 1] = IF x \in R THEN Append(a, x) ELSE a
      <3>1. kept[n + 1] = IF s[n + 1] \in R THEN Append(kept[n + 1 - 1], s[n + 1])
                          ELSE kept[n + 1 - 1]
        BY <1>2, <2>1
      <3> QED
        BY <2>1, <2>2, <2>3, <3>1
    <2>5. /\ \A k \in 1 .. Len(a) : \E i \in 1 .. n : a[k] = s[i]
          /\ \A i, j \in 1 .. Len(a) : a[i] = a[j] => i = j
      <3>1. Once(n)
        BY <1>4
      <3> QED
        BY <2>2, <3>1
    <2>6. \A k \in 1 .. Len(a) : a[k] # x
      <3> SUFFICES ASSUME NEW k \in 1 .. Len(a), a[k] = x PROVE FALSE
        OBVIOUS
      <3>1. PICK i \in 1 .. n : s[i] = s[n + 1]
        BY <2>3, <2>5
      <3>2. i \in 1 .. Len(s) /\ n + 1 \in 1 .. Len(s) /\ i # n + 1
        BY <2>1
      <3> QED
        BY <3>1, <3>2
    <2>7. \A i \in 1 .. n : i \in 1 .. n + 1
      BY <2>1
    <2>8. n + 1 \in 1 .. n + 1
      BY <2>1
    <2>9. Once(n + 1)
      <3>1. CASE x \in R
        <4>1. kept[n + 1] = Append(a, x)
          BY <2>4, <3>1
        <4>2. /\ Len(Append(a, x)) = Len(a) + 1 /\ Len(a) \in Nat
              /\ \A k \in 1 .. Len(a) : Append(a, x)[k] = a[k]
              /\ Append(a, x)[Len(a) + 1] = x
              /\ \A k \in 1 .. Len(a) + 1 : k = Len(a) + 1 \/ k \in 1 .. Len(a)
          OBVIOUS
        <4>3. \A k \in 1 .. Len(a) + 1 : \E i \in 1 .. n + 1 : Append(a, x)[k] = s[i]
          BY <2>3, <2>5, <2>7, <2>8, <4>2
        <4>4. \A i, j \in 1 .. Len(a) + 1 : Append(a, x)[i] = Append(a, x)[j] => i = j
          BY <2>5, <2>6, <4>2
        <4>5. PICK b : b = Append(a, x)
          OBVIOUS
        <4>6. /\ \A k \in 1 .. Len(b) : \E i \in 1 .. n + 1 : b[k] = s[i]
              /\ \A i, j \in 1 .. Len(b) : b[i] = b[j] => i = j
          BY ONLY <4>2, <4>3, <4>4, <4>5
        <4> QED
          BY ONLY <4>1, <4>5, <4>6
      <3>2. CASE x \notin R
        <4>1. kept[n + 1] = a
          BY <2>4, <3>2
        <4> QED
          BY <2>5, <2>7, <4>1
      <3> QED
        BY <3>1, <3>2
    <2> QED
      BY <2>1, <2>9
  <1>5. N \in Good
    <2>1. 0 .. N \subseteq Good
      <3> HIDE DEF Good
      <3> QED
        BY <1>1, <1>3, <1>4, SetInduction
    <2> QED
      BY <1>1, <2>1
  <1> QED
    BY <1>5 DEF Selected, kept, N

-----------------------------------------------------------------------------
(* Pages.                                                                  *)

\* Quotients.
LEMMA Quotient ==
  ASSUME NEW a \in Nat, NEW p \in Nat \ {0}
  PROVE  a \div p \in Nat /\ (a \div p) * p <= a /\ a < (a \div p) * p + p
  OBVIOUS

LEMMA QuotientGrows ==
  ASSUME NEW a \in Nat, NEW b \in Nat, a <= b, NEW p \in Nat \ {0}
  PROVE  a \div p <= b \div p
  OBVIOUS

LEMMA Multiple ==
  ASSUME NEW k \in Nat, NEW p \in Nat \ {0}
  PROVE  (k + 1) * p = k * p + p /\ k * p \in Nat
  OBVIOUS

LEMMA MultipleGrows ==
  ASSUME NEW k \in Nat, NEW j \in Nat, NEW p \in Nat \ {0}, j < k
  PROVE  j * p + p <= k * p
  OBVIOUS

\* A number is between the multiples of one quotient only.
LEMMA QuotientIs ==
  ASSUME NEW a \in Nat, NEW k \in Nat, NEW p \in Nat \ {0}, k * p <= a, a < k * p + p
  PROVE  a \div p = k
  <1>1. PICK q \in Nat : q = a \div p
    BY Quotient
  <1>2. q * p <= a /\ a < q * p + p /\ q * p \in Nat /\ k * p \in Nat
    BY <1>1, Quotient, Multiple
  <1>3. PICK x \in Nat, y \in Nat : x = q * p /\ y = k * p
    BY <1>2
  <1>4. ~(q < k)
    <2>1. q < k => x + p <= y
      BY <1>3, MultipleGrows
    <2> QED
      BY <1>2, <1>3, <2>1
  <1>5. ~(k < q)
    <2>1. k < q => y + p <= x
      BY <1>3, MultipleGrows
    <2> QED
      BY <1>2, <1>3, <2>1
  <1> QED
    BY ONLY q \in Nat, k \in Nat, <1>1, <1>4, <1>5

\* A page is the part of the list between two multiples of the size of a page.
LEMMA SlicePlaces ==
  ASSUME NEW S, NEW h \in Seq(S), NEW k \in Nat, NEW size \in Nat \ {0}
  PROVE  /\ Slice(h, size, k) \in Seq(S)
         /\ Len(Slice(h, size, k)) <= size
         /\ \A i \in 1 .. Len(Slice(h, size, k)) :
               /\ k * size + i \in 1 .. Len(h)
               /\ Slice(h, size, k)[i] = h[k * size + i]
         /\ \A i \in 1 .. Len(h) :
               k * size + 1 <= i /\ i <= k * size + size =>
                   /\ i - k * size \in 1 .. Len(Slice(h, size, k))
                   /\ Slice(h, size, k)[i - k * size] = h[i]
  <1>1. PICK p \in Nat \ {0} : p = size
    OBVIOUS
  <1>2. PICK x \in Nat : x = k * p /\ (k + 1) * p = x + p
    BY Multiple
  <1>3. PICK n \in Nat : n = Len(h)
    OBVIOUS
  <1>4. PICK last \in Nat : last = IF n < x + p THEN n ELSE x + p
    BY ONLY n \in Nat, x \in Nat, p \in Nat
  <1>5. PICK s : s = SubSeq(h, x + 1, last)
    OBVIOUS
  <1>6. s = Slice(h, size, k)
    BY <1>1, <1>2, <1>3, <1>4, <1>5 DEF Slice
  <1>7. \A i \in x + 1 .. last : i \in 1 .. n
    BY <1>2, <1>3, <1>4
  <1>8. /\ s \in Seq(S)
        /\ Len(s) = IF x + 1 <= last THEN last - (x + 1) + 1 ELSE 0
        /\ \A i \in 1 .. last - (x + 1) + 1 : s[i] = h[x + 1 + i - 1]
    <2>1. x + 1 \in Int /\ last \in Int
      OBVIOUS
    <2>2. \A i \in x + 1 .. last : h[i] \in S
      BY <1>3, <1>7
    <2> QED
      BY ONLY <1>5, <2>1, <2>2, SubSeqProperties, SMTT(30)
  <1>9. PICK m \in Nat : m = Len(s)
    <2>1. Len(s) \in Nat
      BY <1>8
    <2> QED
      BY ONLY <2>1
  <1>10. m = IF x + 1 <= last THEN last - x ELSE 0
    BY <1>8, <1>9
  <1>11. ASSUME NEW i \in 1 .. m
         PROVE  i \in 1 .. last - (x + 1) + 1 /\ x + i \in 1 .. n /\ x + 1 + i - 1 = x + i
    BY ONLY <1>4, <1>10, i \in 1 .. m, x \in Nat, n \in Nat, last \in Nat, m \in Nat, p \in Nat
  <1>12. ASSUME NEW i \in 1 .. n, x + 1 <= i, i <= x + p
         PROVE  i - x \in 1 .. m /\ x + (i - x) = i
    BY ONLY <1>4, <1>10, <1>12, i \in 1 .. n, x \in Nat, n \in Nat, last \in Nat, m \in Nat,
       p \in Nat
  <1>13. m <= p
    BY ONLY <1>4, <1>10, x \in Nat, n \in Nat, last \in Nat, m \in Nat, p \in Nat
  <1>14. \A i \in 1 .. m : x + i \in 1 .. n /\ s[i] = h[x + i]
    BY <1>8, <1>11
  <1>15. \A i \in 1 .. n : x + 1 <= i /\ i <= x + p => i - x \in 1 .. m /\ s[i - x] = h[i]
    BY <1>12, <1>14
  <1> QED
    BY <1>1, <1>2, <1>3, <1>6, <1>8, <1>9, <1>13, <1>14, <1>15

\* So it lists the items whose places have its quotient.
LEMMA SliceItems ==
  ASSUME NEW S, NEW h \in Seq(S), NEW k \in Nat, NEW size \in Nat \ {0}
  PROVE  /\ \A x \in ToSet(Slice(h, size, k)) :
               \E i \in 1 .. Len(h) : x = h[i] /\ (i - 1) \div size = k
         /\ \A i \in 1 .. Len(h) :
               (i - 1) \div size = k => h[i] \in ToSet(Slice(h, size, k))
  <1>1. PICK p \in Nat \ {0} : p = size
    OBVIOUS
  <1>2. PICK y \in Nat : y = k * p
    BY Multiple
  <1>3. PICK s \in Seq(S) : s = Slice(h, size, k)
    BY SlicePlaces
  <1>4. PICK m \in Nat, n \in Nat : m = Len(s) /\ n = Len(h)
    OBVIOUS
  <1>5. /\ m <= p
        /\ \A i \in 1 .. m : y + i \in 1 .. n /\ s[i] = h[y + i]
        /\ \A i \in 1 .. n : y + 1 <= i /\ i <= y + p => i - y \in 1 .. m /\ s[i - y] = h[i]
    <2>1. /\ Len(s) <= size
          /\ \A i \in 1 .. Len(s) :
                k * size + i \in 1 .. Len(h) /\ s[i] = h[k * size + i]
          /\ \A i \in 1 .. Len(h) :
                k * size + 1 <= i /\ i <= k * size + size =>
                    i - k * size \in 1 .. Len(s) /\ s[i - k * size] = h[i]
      BY <1>3, SlicePlaces
    <2> QED
      BY ONLY <1>1, <1>2, <1>4, <2>1
  <1>6. ASSUME NEW x \in ToSet(s)
        PROVE  \E i \in 1 .. n : x = h[i] /\ (i - 1) \div p = k
    <2>1. PICK i \in 1 .. m : x = s[i]
      BY <1>4, Places
    <2>2. PICK a \in Nat : a = y + i - 1
      BY <1>4
    <2>3. y <= a /\ a < y + p /\ y + i - 1 = a
      BY <1>4, <1>5, <2>2
    <2>4. a \div p = k
      BY ONLY <1>2, <2>3, QuotientIs, a \in Nat, k \in Nat, p \in Nat \ {0}
    <2>5. PICK j \in 1 .. n : j = y + i /\ h[j] = s[i]
      BY <1>5
    <2>6. j - 1 = a
      BY ONLY <2>2, <2>5, a \in Nat, y \in Nat
    <2> QED
      BY <2>1, <2>4, <2>5, <2>6
  <1>7. ASSUME NEW i \in 1 .. n, (i - 1) \div p = k
        PROVE  h[i] \in ToSet(s)
    <2>1. PICK a \in Nat : a = i - 1
      BY <1>4
    <2>2. y <= a /\ a < y + p
      BY ONLY <1>2, <1>7, <2>1, Quotient, a \in Nat, p \in Nat \ {0}
    <2>3. y + 1 <= i /\ i <= y + p
      BY <2>1, <2>2
    <2> QED
      BY <1>4, <1>5, <2>3, Places
  <1> QED
    BY <1>1, <1>3, <1>4, <1>6, <1>7

=============================================================================
