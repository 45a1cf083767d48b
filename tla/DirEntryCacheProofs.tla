------------------------ MODULE DirEntryCacheProofs ------------------------
(***************************************************************************)
(* Proofs about the cache of listings, as FuseTree uses it: what it says   *)
(* it uses is what it holds, and that fits in maxram.  The sizes of a      *)
(* sequence of keys are a recursive function, so what __setitem__ does to  *)
(* them (a key moved to the end, the oldest dropped) is computed by        *)
(* comparing two such functions place by place (SameSizes).                *)
(***************************************************************************)

EXTENDS FuseTree, SelectionProofs

-----------------------------------------------------------------------------
(* The sizes of a sequence of keys.                                        *)

\* The value of each of the keys is a listing.
Sized(keys, values) == \A k \in 1 .. Len(keys) : sizeof(values[keys[k]]) \in Nat

\* Sizes' recursion has a value: each key adds the size of its value.
LEMMA SizesStep ==
  ASSUME NEW K, NEW keys \in Seq(K), NEW values, Sized(keys, values)
  PROVE  /\ Sizes(keys, values) \in [0 .. Len(keys) -> Nat]
         /\ Sizes(keys, values)[0] = 0
         /\ \A k \in 1 .. Len(keys) :
               Sizes(keys, values)[k] =
                   Sizes(keys, values)[k - 1] + sizeof(values[keys[k]])
  <1> DEFINE N == Len(keys)
             size(k) == sizeof(values[keys[k]])
             Item(f, k) == IF k = 0 THEN 0 ELSE f[k - 1] + sizeof(values[keys[k]])
             step == [p \in Nat \X (1 .. N) |-> p[1] + size(p[2])]
  <1>1. N \in Nat /\ \A k \in 1 .. N : size(k) \in Nat
    BY DEF Sized
  <1> HIDE DEF N, size
  <1>2. step \in [Nat \X (1 .. N) -> Nat]
    BY <1>1
  <1>3. PICK f \in [0 .. N -> Nat] :
            f[0] = 0 /\ \A k \in 1 .. N : f[k] = step[<<f[k - 1], k>>]
    <2>1. PICK V : V = Nat
      OBVIOUS
    <2> HIDE DEF step
    <2>2. 0 \in V /\ step \in [V \X (1 .. N) -> V]
      BY <1>2, <2>1
    <2>3. \E f \in [0 .. N -> V] : Follows(f, 0, step, N)
      BY <1>1, <2>2, Recursion
    <2> QED
      BY <2>1, <2>3 DEF Follows
  <1>4. \A k \in 0 .. N : f[k] = Item(f, k)
    <2>1. \A k \in 1 .. N : k - 1 \in 0 .. N /\ k # 0
      BY <1>1
    <2>2. \A k \in 1 .. N : step[<<f[k - 1], k>>] = f[k - 1] + size(k)
      BY <1>1, <1>3, <2>1
    <2>3. \A k \in 1 .. N : f[k - 1] + size(k) = Item(f, k)
      BY <2>1 DEF size
    <2>4. \A k \in 0 .. N : k = 0 \/ k \in 1 .. N
      BY <1>1
    <2> HIDE DEF step
    <2> QED
      BY <1>3, <2>2, <2>3, <2>4
  <1>5. f = [k \in 0 .. N |-> Item(f, k)]
    BY <1>4
  <1> DEFINE sum == CHOOSE g : g = [k \in 0 .. N |-> Item(g, k)]
  <1>6. sum = [k \in 0 .. N |-> Item(sum, k)]
    BY <1>5
  <1>7. sum = Sizes(keys, values)
    BY DEF Sizes, N
  <1> HIDE DEF sum
  <1>8. sum[0] = 0 /\ \A k \in 1 .. N : sum[k] = sum[k - 1] + size(k)
    <2>1. 0 \in 0 .. N /\ \A k \in 1 .. N : k \in 0 .. N /\ k # 0
      BY <1>1
    <2>2. \A k \in 0 .. N : sum[k] = Item(sum, k)
      BY <1>6
    <2> QED
      BY <2>1, <2>2 DEF size
  <1>9. \A k \in 0 .. N : sum[k] \in Nat
    <2> DEFINE Good == {n \in 0 .. N : sum[n] \in Nat}
    <2>1. Good \subseteq Nat /\ 0 \in Good
      <3>1. 0 \in 0 .. N
        BY <1>1
      <3> QED
        BY <1>1, <1>8, <3>1
    <2>2. ASSUME NEW n \in 0 .. N - 1, n \in Good
          PROVE  n + 1 \in Good
      <3>1. n + 1 \in 1 .. N /\ n + 1 \in 0 .. N /\ n + 1 - 1 = n
        BY <1>1
      <3>2. sum[n + 1] = sum[n] + size(n + 1) /\ sum[n] \in Nat /\ size(n + 1) \in Nat
        BY <1>1, <1>8, <2>2, <3>1
      <3> QED
        BY <3>1, <3>2
    <2>3. 0 .. N \subseteq Good
      <3> HIDE DEF Good
      <3> QED
        BY <1>1, <2>1, <2>2, SetInduction
    <2> QED
      BY <2>3
  <1>10. sum \in [0 .. N -> Nat]
    BY <1>6, <1>9
  <1> QED
    BY <1>7, <1>8, <1>10 DEF N, size

\* n keys of the first, from place a on, have values of the sizes of the second's.
Alike(keys, values, a, keys2, values2, n) ==
    /\ Sized(keys, values) /\ Sized(keys2, values2)
    /\ a \in Nat /\ n \in Nat /\ a + n <= Len(keys) /\ n <= Len(keys2)
    /\ \A k \in 1 .. n : sizeof(values[keys[a + k]]) = sizeof(values2[keys2[k]])

\* Where two sequences of keys have values of the same sizes, from some place
\* of the first on, these add the same.
LEMMA SameSizes ==
  ASSUME NEW K, NEW keys \in Seq(K), NEW values, NEW keys2 \in Seq(K), NEW values2,
         NEW a, NEW n, Alike(keys, values, a, keys2, values2, n)
  PROVE  Sizes(keys, values)[a + n] = Sizes(keys, values)[a] + Sizes(keys2, values2)[n]
  <1> DEFINE s == Sizes(keys, values)
             t == Sizes(keys2, values2)
             Good == {m \in 0 .. n : s[a + m] = s[a] + t[m]}
  <1>. /\ Sized(keys, values) /\ Sized(keys2, values2)
       /\ a \in Nat /\ n \in Nat /\ a + n <= Len(keys) /\ n <= Len(keys2)
       /\ \A k \in 1 .. n : sizeof(values[keys[a + k]]) = sizeof(values2[keys2[k]])
    BY DEF Alike
  <1>1. /\ s \in [0 .. Len(keys) -> Nat]
        /\ \A k \in 1 .. Len(keys) : s[k] = s[k - 1] + sizeof(values[keys[k]])
    BY SizesStep
  <1>2. /\ t \in [0 .. Len(keys2) -> Nat] /\ t[0] = 0
        /\ \A k \in 1 .. Len(keys2) : t[k] = t[k - 1] + sizeof(values2[keys2[k]])
    BY SizesStep
  <1> HIDE DEF s, t
  <1>3. Good \subseteq Nat /\ 0 \in Good
    <2>1. a \in 0 .. Len(keys) /\ a + 0 = a /\ 0 \in 0 .. n
      OBVIOUS
    <2>2. s[a] \in Nat
      BY <1>1, <2>1
    <2> QED
      BY <1>2, <2>1, <2>2
  <1>4. ASSUME NEW m \in 0 .. n - 1, m \in Good
        PROVE  m + 1 \in Good
    <2>1. /\ a + m + 1 \in 1 .. Len(keys) /\ a + m + 1 - 1 = a + m /\ m + 1 \in 1 .. n
          /\ m + 1 \in 1 .. Len(keys2) /\ m + 1 - 1 = m /\ m + 1 \in 0 .. n
          /\ a + (m + 1) = a + m + 1
          /\ a \in 0 .. Len(keys) /\ m \in 0 .. Len(keys2)
      OBVIOUS
    <2>2. s[a + m] = s[a] + t[m] /\ s[a] \in Nat /\ t[m] \in Nat
      <3>1. s[a + m] = s[a] + t[m]
        BY <1>4
      <3>2. s[a] \in Nat
        BY ONLY <1>1, <2>1
      <3>3. t[m] \in Nat
        BY ONLY <1>2, <2>1
      <3> QED
        BY <3>1, <3>2, <3>3
    <2>3. PICK x \in Nat : x = sizeof(values[keys[a + m + 1]])
      <3>1. sizeof(values[keys[a + m + 1]]) \in Nat
        BY <2>1 DEF Sized
      <3> QED
        BY <3>1
    <2>4. s[a + m + 1] = s[a + m] + x
      BY <1>1, <2>1, <2>3
    <2>5. t[m + 1] = t[m] + x
      <3>1. sizeof(values[keys[a + m + 1]]) = sizeof(values2[keys2[m + 1]])
        <4>1. sizeof(values[keys[a + (m + 1)]]) = sizeof(values2[keys2[m + 1]])
          BY <2>1
        <4> QED
          BY <2>1, <4>1, Zenon
      <3>2. t[m + 1] = t[m + 1 - 1] + sizeof(values2[keys2[m + 1]])
        BY <1>2, <2>1
      <3> QED
        BY ONLY <2>1, <2>3, <3>1, <3>2
    <2>6. s[a + (m + 1)] = s[a] + t[m + 1]
      BY <2>1, <2>2, <2>4, <2>5
    <2> QED
      BY <2>1, <2>6
  <1>5. 0 .. n \subseteq Good
    <2> HIDE DEF Good
    <2> QED
      BY <1>3, <1>4, SetInduction
  <1>6. n \in Good
    BY <1>5
  <1> QED
    BY <1>6 DEF s, t

-----------------------------------------------------------------------------
(* A key moved to the end.                                                 *)

\* keys is old with what was at place i at the end.
MovedFrom(old, i, keys) ==
    /\ Len(keys) = Len(old)
    /\ \A k \in 1 .. i - 1 : keys[k] = old[k]
    /\ \A k \in i .. Len(old) - 1 : keys[k] = old[k + 1]
    /\ keys[Len(old)] = old[i]

\* keys is old but for key, which is at the end.
Moved(old, key, keys) ==
    \/ /\ \A k \in 1 .. Len(old) : old[k] # key
       /\ keys = Append(old, key)
    \/ \E i \in 1 .. Len(old) : old[i] = key /\ MovedFrom(old, i, keys)

\* What MovedToEnd returns.
LEMMA MovedToEndMoves ==
  ASSUME CacheTypeOK, NEW key \in Nat \ {0}
  PROVE  MovedToEnd(key) \in Seq(Nat \ {0}) /\ Moved(order, key, MovedToEnd(key))
  <1>1. PICK old \in Seq(Nat \ {0}) : old = order /\ DOMAIN held = ToSet(old)
    BY DEF CacheTypeOK
  <1>2. Len(old) \in Nat /\ \A k \in 1 .. Len(old) : old[k] \in Nat \ {0}
    OBVIOUS
  <1>3. CASE key \notin DOMAIN held
    <2>1. MovedToEnd(key) = Append(old, key)
      BY <1>1, <1>3 DEF MovedToEnd
    <2>2. \A k \in 1 .. Len(old) : old[k] # key
      BY <1>1, <1>3 DEF ToSet
    <2> QED
      BY <1>1, <2>1, <2>2 DEF Moved
  <1>4. CASE key \in DOMAIN held
    <2>1. \E i \in 1 .. Len(old) : old[i] = key
      BY <1>1, <1>4 DEF ToSet
    <2>2. PICK i \in 1 .. Len(old) :
              old[i] = key /\ MovedToEnd(key) = Append(RemoveAt(old, i), key)
      BY <1>1, <1>4, <2>1 DEF MovedToEnd
    <2> DEFINE front == SubSeq(old, 1, i - 1)
               back == SubSeq(old, i + 1, Len(old))
    <2>3. /\ front \in Seq(Nat \ {0}) /\ Len(front) = i - 1
          /\ \A k \in 1 .. i - 1 : front[k] = old[k]
      BY <1>2
    <2>4. /\ back \in Seq(Nat \ {0}) /\ Len(back) = Len(old) - i
          /\ \A k \in 1 .. Len(old) - i : back[k] = old[i + k]
      BY <1>2
    <2>5. RemoveAt(old, i) = front \o back
      BY DEF RemoveAt
    <2> HIDE DEF front, back
    <2> DEFINE keys == Append(front \o back, key)
    <2>6. /\ keys \in Seq(Nat \ {0}) /\ Len(keys) = Len(old)
          /\ \A k \in 1 .. i - 1 : keys[k] = front[k]
          /\ \A k \in 1 .. Len(old) - i : keys[i - 1 + k] = back[k]
          /\ keys[Len(old)] = key
      <3>1. PICK m \in Seq(Nat \ {0}) : m = front \o back
        BY <2>3, <2>4, ConcatProperties
      <3>2. /\ Len(m) = Len(old) - 1
            /\ \A k \in 1 .. i - 1 : m[k] = front[k]
            /\ \A k \in 1 .. Len(old) - i : m[i - 1 + k] = back[k]
        <4>1. /\ Len(m) = Len(front) + Len(back)
              /\ \A k \in 1 .. Len(front) + Len(back) :
                    m[k] = IF k <= Len(front) THEN front[k] ELSE back[k - Len(front)]
          BY <2>3, <2>4, <3>1, ConcatProperties, ZenonT(30)
        <4> QED
          <5>1. PICK n \in Nat, f \in Nat, b \in Nat :
                    n = Len(old) /\ f = Len(front) /\ b = Len(back) /\ f = i - 1 /\ b = n - i
            BY ONLY <1>2, <2>3, <2>4, i \in 1 .. Len(old)
          <5>4. \A k \in 1 .. f + b : m[k] = IF k <= f THEN front[k] ELSE back[k - f]
            BY ONLY <4>1, <5>1, Zenon
          <5>2. ASSUME NEW k \in 1 .. f
                PROVE  m[k] = front[k]
            <6>1. k \in 1 .. f + b /\ k <= f
              BY <5>1
            <6> QED
              BY ONLY <5>4, <6>1
          <5>3. ASSUME NEW k \in 1 .. b
                PROVE  m[f + k] = back[k]
            <6>1. f + k \in 1 .. f + b /\ ~(f + k <= f) /\ f + k - f = k
              BY <5>1
            <6> QED
              BY ONLY <5>4, <6>1
          <5> QED
            BY ONLY <4>1, <5>1, <5>2, <5>3, i \in 1 .. Len(old)
      <3>3. /\ keys \in Seq(Nat \ {0}) /\ Len(keys) = Len(old)
            /\ \A k \in 1 .. Len(old) - 1 : keys[k] = m[k]
            /\ keys[Len(old)] = key
        BY <1>2, <3>1, <3>2
      <3>4. /\ \A k \in 1 .. i - 1 : k \in 1 .. Len(old) - 1
            /\ \A k \in 1 .. Len(old) - i : i - 1 + k \in 1 .. Len(old) - 1
        BY <1>2
      <3> HIDE DEF keys
      <3> QED
        BY ONLY <3>2, <3>3, <3>4
    <2> HIDE DEF keys
    <2>7. \A k \in 1 .. i - 1 : keys[k] = old[k]
      BY <2>3, <2>6
    <2>8. ASSUME NEW k \in i .. Len(old) - 1
          PROVE  keys[k] = old[k + 1]
      <3>1. k - i + 1 \in 1 .. Len(old) - i
        BY <1>2
      <3>2. keys[i - 1 + (k - i + 1)] = back[k - i + 1] /\ back[k - i + 1] = old[i + (k - i + 1)]
        BY <2>4, <2>6, <3>1
      <3>3. i - 1 + (k - i + 1) = k /\ i + (k - i + 1) = k + 1
        BY <1>2
      <3> QED
        BY <3>2, <3>3, Zenon
    <2>9. MovedToEnd(key) = keys
      BY <2>2, <2>5 DEF keys
    <2> QED
      BY <1>1, <2>2, <2>6, <2>7, <2>8, <2>9 DEF Moved, MovedFrom
  <1> QED
    BY <1>3, <1>4

\* The keys are those there were and this one, each of them once.
LEMMA MovedKeys ==
  ASSUME NEW K, NEW old \in Seq(K), NEW key \in K, NEW keys \in Seq(K),
         Moved(old, key, keys),
         \A i, j \in 1 .. Len(old) : old[i] = old[j] => i = j
  PROVE  /\ \A i, j \in 1 .. Len(keys) : keys[i] = keys[j] => i = j
         /\ ToSet(keys) = ToSet(old) \cup {key}
  <1>1. Len(old) \in Nat
    OBVIOUS
  <1>2. CASE /\ \A k \in 1 .. Len(old) : old[k] # key
             /\ keys = Append(old, key)
    <2>1. /\ Len(keys) = Len(old) + 1 /\ keys[Len(old) + 1] = key
          /\ \A k \in 1 .. Len(old) : keys[k] = old[k]
          /\ \A k \in 1 .. Len(keys) : k = Len(old) + 1 \/ k \in 1 .. Len(old)
      BY <1>2
    <2>2. \A i, j \in 1 .. Len(keys) : keys[i] = keys[j] => i = j
      BY <1>2, <2>1
    <2>3. ToSet(keys) = ToSet(old) \cup {key}
      <3>1. Len(old) + 1 \in 1 .. Len(keys) /\ \A k \in 1 .. Len(old) : k \in 1 .. Len(keys)
        BY <1>1, <2>1
      <3> QED
        BY <2>1, <3>1 DEF ToSet
    <2> QED
      BY <2>2, <2>3
  <1>3. ASSUME NEW n \in 1 .. Len(old), old[n] = key, MovedFrom(old, n, keys)
        PROVE  /\ \A i, j \in 1 .. Len(keys) : keys[i] = keys[j] => i = j
               /\ ToSet(keys) = ToSet(old) \cup {key}
    <2> DEFINE from(k) == IF k < n THEN k ELSE IF k < Len(old) THEN k + 1 ELSE n
               to(k) == IF k < n THEN k ELSE IF k = n THEN Len(old) ELSE k - 1
    <2>1. \A k \in 1 .. Len(keys) : from(k) \in 1 .. Len(old) /\ keys[k] = old[from(k)]
      BY <1>1, <1>3 DEF MovedFrom
    <2>2. \A i, j \in 1 .. Len(keys) : from(i) = from(j) => i = j
      BY <1>1, <1>3 DEF MovedFrom
    <2>3. \A k \in 1 .. Len(old) : to(k) \in 1 .. Len(keys) /\ from(to(k)) = k
      BY <1>1, <1>3 DEF MovedFrom
    <2> HIDE DEF from, to
    <2>4. \A i, j \in 1 .. Len(keys) : keys[i] = keys[j] => i = j
      BY <2>1, <2>2
    <2>5. \A k \in 1 .. Len(old) : keys[to(k)] = old[k]
      BY <2>1, <2>3
    <2>6. ToSet(keys) \subseteq ToSet(old)
      BY <2>1 DEF ToSet
    <2>7. ToSet(old) \subseteq ToSet(keys)
      BY <2>3, <2>5 DEF ToSet
    <2>8. key \in ToSet(old)
      BY <1>3 DEF ToSet
    <2> QED
      BY <2>4, <2>6, <2>7, <2>8
  <1> QED
    BY <1>2, <1>3 DEF Moved

\* The keys but for that one have the values they had.
SameBut(key, keys, before, after) ==
    \A k \in 1 .. Len(keys) : keys[k] # key => after[keys[k]] = before[keys[k]]

\* Their sizes add up to what they were, with the size of the key that came in,
\* or with its size now for its size before.
LEMMA MovedSizes ==
  ASSUME NEW K, NEW old \in Seq(K), NEW key \in K, NEW keys \in Seq(K),
         Moved(old, key, keys),
         \A i, j \in 1 .. Len(old) : old[i] = old[j] => i = j,
         NEW before, NEW after, Sized(old, before), Sized(keys, after),
         SameBut(key, old, before, after)
  PROVE  /\ (\A k \in 1 .. Len(old) : old[k] # key) =>
               SizeSum(keys, after) = SizeSum(old, before) + sizeof(after[key])
         /\ (\E k \in 1 .. Len(old) : old[k] = key) =>
               SizeSum(keys, after) + sizeof(before[key])
                   = SizeSum(old, before) + sizeof(after[key])
  <1> DEFINE s == Sizes(keys, after)
             t == Sizes(old, before)
  <1>. \A k \in 1 .. Len(old) : old[k] # key => after[old[k]] = before[old[k]]
    BY DEF SameBut
  <1>1. PICK N \in Nat : N = Len(old)
    OBVIOUS
  <1>2. /\ s[0] = 0
        /\ \A k \in 0 .. Len(keys) : s[k] \in Nat
        /\ \A k \in 1 .. Len(keys) : s[k] = s[k - 1] + sizeof(after[keys[k]])
    <2>1. /\ s \in [0 .. Len(keys) -> Nat] /\ s[0] = 0
          /\ \A k \in 1 .. Len(keys) : s[k] = s[k - 1] + sizeof(after[keys[k]])
      BY SizesStep
    <2> HIDE DEF s
    <2> QED
      BY ONLY <2>1
  <1>3. /\ t[0] = 0
        /\ \A k \in 0 .. N : t[k] \in Nat
        /\ \A k \in 1 .. N : t[k] = t[k - 1] + sizeof(before[old[k]])
    <2>1. /\ t \in [0 .. Len(old) -> Nat] /\ t[0] = 0
          /\ \A k \in 1 .. Len(old) : t[k] = t[k - 1] + sizeof(before[old[k]])
      BY SizesStep
    <2> HIDE DEF t
    <2> QED
      BY ONLY <1>1, <2>1
  <1>4. SizeSum(keys, after) = s[Len(keys)] /\ SizeSum(old, before) = t[N]
    BY <1>1 DEF SizeSum
  <1> HIDE DEF s, t
  <1>5. CASE /\ \A k \in 1 .. N : old[k] # key
             /\ keys = Append(old, key)
    <2>1. /\ Len(keys) = N + 1 /\ keys[N + 1] = key
          /\ \A k \in 1 .. N : keys[k] = old[k]
      BY <1>1, <1>5
    <2>2. s[N] = t[N]
      <3>1. \A k \in 1 .. N : sizeof(after[keys[0 + k]]) = sizeof(before[old[k]])
        BY <1>1, <1>5, <2>1
      <3>2. 0 + N <= Len(keys) /\ N <= Len(old) /\ 0 \in Nat /\ 0 + N = N
        BY <1>1, <2>1
      <3>3. Sizes(keys, after)[0 + N] = Sizes(keys, after)[0] + Sizes(old, before)[N]
        <4>1. Alike(keys, after, 0, old, before, N)
          BY <1>1, <3>1, <3>2 DEF Alike
        <4>2. keys \in Seq(K) /\ old \in Seq(K)
          OBVIOUS
        <4> QED
          BY ONLY <4>1, <4>2, SameSizes
      <3> QED
        BY <1>1, <1>2, <1>3, <3>2, <3>3 DEF s, t
    <2>3. s[N + 1] = s[N] + sizeof(after[key])
      <3>1. N + 1 \in 1 .. Len(keys) /\ N + 1 - 1 = N
        BY <1>1, <2>1
      <3> QED
        BY <1>2, <2>1, <3>1
    <2> QED
      BY <1>1, <1>4, <1>5, <2>1, <2>2, <2>3
  <1>6. ASSUME NEW i \in 1 .. N, old[i] = key, MovedFrom(old, i, keys)
        PROVE  Len(keys) = N /\ s[N] + sizeof(before[key]) = t[N] + sizeof(after[key])
    <2>0. /\ old[i] = key /\ Len(keys) = N /\ keys[N] = key
          /\ \A k \in 1 .. i - 1 : keys[k] = old[k]
          /\ \A k \in i .. N - 1 : keys[k] = old[k + 1]
      BY <1>1, <1>6 DEF MovedFrom
    <2>1. PICK f \in Nat, b \in Nat :
              f = i - 1 /\ b = N - i /\ f + b = N - 1 /\ i = f + 1 /\ i + b = N
      BY ONLY N \in Nat, i \in 1 .. N
    <2> DEFINE back == SubSeq(old, i + 1, N)
               r == Sizes(back, before)
    <2> HIDE DEF r
    <2>2. /\ back \in Seq(K) /\ Len(back) = b
          /\ \A k \in 1 .. b : back[k] = old[i + k]
      BY ONLY old \in Seq(K), i \in 1 .. N, <1>1, <2>1
    <2> HIDE DEF back
    <2>3. \A k \in 1 .. b : i + k \in 1 .. N /\ f + k \in i .. N - 1 /\ f + k + 1 = i + k
      BY <2>1
    <2>4. Sized(back, before)
      BY <1>1, <2>2, <2>3 DEF Sized
    <2>5. \A k \in 1 .. b : old[i + k] # key
      <3>1. \A k \in 1 .. b : i + k # i
        BY <2>1
      <3> QED
        BY <1>1, <2>0, <2>3, <3>1
    <2>6. s[f] = t[f]
      <3>1. \A k \in 1 .. f : k \in 1 .. N /\ k # i /\ k \in 1 .. i - 1
        BY <2>1
      <3>2. \A k \in 1 .. f : old[k] # key
        BY <1>1, <2>0, <3>1
      <3>3. \A k \in 1 .. f : sizeof(after[keys[0 + k]]) = sizeof(before[old[k]])
        BY <1>1, <2>0, <3>1, <3>2
      <3>4. 0 + f <= Len(keys) /\ f <= Len(old) /\ 0 \in Nat /\ 0 + f = f
        BY <1>1, <2>0, <2>1
      <3>5. Sizes(keys, after)[0 + f] = Sizes(keys, after)[0] + Sizes(old, before)[f]
        <4>1. Alike(keys, after, 0, old, before, f)
          BY <1>1, <3>3, <3>4 DEF Alike
        <4>2. keys \in Seq(K) /\ old \in Seq(K)
          OBVIOUS
        <4> QED
          BY ONLY <4>1, <4>2, SameSizes
      <3>6. f \in 0 .. N
        BY <2>1
      <3> QED
        BY <1>2, <1>3, <3>4, <3>5, <3>6 DEF s, t
    <2>7. t[i + b] = t[i] + r[b]
      <3>1. \A k \in 1 .. b : sizeof(before[old[i + k]]) = sizeof(before[back[k]])
        BY <2>2
      <3>2. i \in Nat /\ i + b <= Len(old) /\ b <= Len(back)
        BY ONLY i \in 1 .. N, <1>1, <2>1, <2>2
      <3> QED
        <4>1. old \in Seq(K) /\ Sized(old, before)
          OBVIOUS
        <4>2. Sizes(old, before)[i + b] = Sizes(old, before)[i] + Sizes(back, before)[b]
          <5>1. Alike(old, before, i, back, before, b)
            BY <2>4, <3>1, <3>2, <4>1 DEF Alike
          <5> QED
            BY ONLY <2>2, <4>1, <5>1, SameSizes
        <4> QED
          BY <4>2 DEF t, r
    <2>8. s[f + b] = s[f] + r[b]
      <3>1. \A k \in 1 .. b : sizeof(after[keys[f + k]]) = sizeof(before[back[k]])
        <4>1. \A k \in 1 .. b : keys[f + k] = old[i + k]
          BY <2>0, <2>3
        <4> QED
          BY <1>1, <2>2, <2>3, <2>5, <4>1
      <3>2. f + b <= Len(keys) /\ b <= Len(back)
        BY <2>0, <2>1, <2>2
      <3> QED
        <4>1. keys \in Seq(K) /\ Sized(keys, after)
          OBVIOUS
        <4>2. Sizes(keys, after)[f + b] = Sizes(keys, after)[f] + Sizes(back, before)[b]
          <5>1. Alike(keys, after, f, back, before, b)
            BY <2>4, <3>1, <3>2, <4>1 DEF Alike
          <5> QED
            BY ONLY <2>2, <4>1, <5>1, SameSizes
        <4> QED
          BY <4>2 DEF s, r
    <2>9. s[N] = s[N - 1] + sizeof(after[key])
      <3>1. N \in 1 .. Len(keys)
        BY <1>1, <2>0
      <3> QED
        <4>1. s[N] = s[N - 1] + sizeof(after[keys[N]])
          BY ONLY <1>2, <3>1, Zenon
        <4> QED
          BY ONLY <2>0, <4>1, Zenon
    <2>10. t[i] = t[i - 1] + sizeof(before[key])
      <3>1. t[i] = t[i - 1] + sizeof(before[old[i]])
        BY ONLY <1>3, i \in 1 .. N, Zenon
      <3> QED
        BY ONLY <2>0, <3>1, Zenon
    <2>11. r[b] \in Nat /\ s[f] \in Nat /\ sizeof(before[key]) \in Nat /\ sizeof(after[key]) \in Nat
      <3>1. r[b] \in Nat
        <4>1. r \in [0 .. b -> Nat]
          <5>1. Sizes(back, before) \in [0 .. Len(back) -> Nat]
            BY ONLY <2>2, <2>4, SizesStep
          <5> QED
            BY <2>2, <5>1 DEF r
        <4> QED
          BY ONLY <4>1, b \in Nat
      <3>2. f \in 0 .. Len(keys) /\ N \in 1 .. Len(keys)
        <4>1. Len(keys) = N
          BY ONLY <2>0, Zenon
        <4> QED
          BY ONLY <2>1, <4>1, N \in Nat, i \in 1 .. N, f \in Nat
      <3>3. sizeof(before[key]) \in Nat /\ sizeof(after[key]) \in Nat
        BY <1>1, <2>0, <3>2 DEF Sized
      <3> QED
        BY <1>2, <3>1, <3>2, <3>3
    <2> QED
      <3>1. t[N] = t[i] + r[b] /\ s[N - 1] = s[f] + r[b] /\ i - 1 = f
        BY ONLY <2>1, <2>7, <2>8
      <3>2. t[i] = t[f] + sizeof(before[key])
        BY ONLY <2>10, <3>1
      <3>3. PICK x \in Nat, y \in Nat, z \in Nat, u \in Nat :
                x = s[f] /\ y = r[b] /\ z = sizeof(before[key]) /\ u = sizeof(after[key])
        BY ONLY <2>11
      <3>4. t[N] = x + z + y /\ s[N] = x + y + u
        BY ONLY <2>6, <2>9, <3>1, <3>2, <3>3
      <3>5. s[N] + z = t[N] + u
        BY ONLY <3>3, <3>4, SMTT(30)
      <3> QED
        BY ONLY <2>0, <3>3, <3>5
  <1> QED
    <2>1. \/ /\ \A k \in 1 .. N : old[k] # key
             /\ keys = Append(old, key)
          \/ \E i \in 1 .. N : old[i] = key /\ MovedFrom(old, i, keys)
      BY <1>1 DEF Moved
    <2>2. (\E i \in 1 .. N : old[i] = key /\ MovedFrom(old, i, keys)) =>
             Len(keys) = N /\ s[N] + sizeof(before[key]) = t[N] + sizeof(after[key])
      BY <1>6
    <2> QED
      BY <1>1, <1>4, <1>5, <2>1, <2>2

-----------------------------------------------------------------------------
(* A listing stored.                                                       *)

\* The loop of __setitem__ stops, at the latest when nothing is left.
LEMMA EvictionsStop ==
  ASSUME NEW K, NEW keys \in Seq(K), NEW values, Sized(keys, values), NEW ram \in Int
  PROVE  /\ Evictions(keys, values, ram) \in 0 .. Len(keys)
         /\ \/ ram - Sizes(keys, values)[Evictions(keys, values, ram)] <= MaxRam
            \/ Evictions(keys, values, ram) = Len(keys)
  <1> DEFINE s == Sizes(keys, values)
             Enough(n) == ram - s[n] <= MaxRam \/ n = Len(keys)
             Stops == {n \in 0 .. Len(keys) : Enough(n)}
             Least(n) == Enough(n) /\ \A m \in 0 .. n - 1 : ram - s[m] > MaxRam
  <1>1. PICK N \in Nat : N = Len(keys)
    OBVIOUS
  <1>2. \A n \in 0 .. N : s[n] \in Nat
    <2>1. s \in [0 .. N -> Nat]
      BY <1>1, SizesStep
    <2> HIDE DEF s
    <2> QED
      BY ONLY <2>1
  <1>3. MaxRam \in Nat
    BY BoundAssumption
  <1> HIDE DEF s
  <1>4. PICK n \in Stops : \A m \in Stops : n <= m
    <2>1. Stops \subseteq Nat /\ N \in Stops
      BY <1>1
    <2> HIDE DEF Stops
    <2> QED
      BY <2>1, Smallest
  <1>5. n \in 0 .. Len(keys) /\ Least(n)
    <2>1. n \in 0 .. Len(keys) /\ Enough(n)
      BY <1>4
    <2>2. ASSUME NEW m \in 0 .. n - 1
          PROVE  ram - s[m] > MaxRam
      <3>1. m \in 0 .. N /\ m \notin Stops
        BY <1>1, <1>4, <2>1
      <3>2. ~(ram - s[m] <= MaxRam)
        BY <1>1, <3>1
      <3> QED
        BY <1>2, <1>3, <3>1, <3>2
    <2> QED
      BY <2>1, <2>2
  <1> DEFINE chosen == CHOOSE k \in 0 .. Len(keys) : Least(k)
  <1>6. chosen \in 0 .. Len(keys) /\ Enough(chosen)
    <2>1. chosen \in 0 .. Len(keys) /\ Least(chosen)
      <3> HIDE DEF Least
      <3> QED
        BY <1>5
    <2> QED
      BY <2>1
  <1>7. chosen = Evictions(keys, values, ram)
    BY DEF Evictions, s
  <1> HIDE DEF chosen
  <1> QED
    BY <1>6, <1>7 DEF s

\* The values of what is held are listings.
Held == \A i \in DOMAIN held : sizeof(held[i]) \in Nat

\* What the cache is after __setitem__: the last of the keys, with their values.
\* It counts what these sum to, if it did before and if the size of a listing
\* that is replaced is the size of what replaces it; and that fits.
LEMMA CacheSetKeeps ==
  ASSUME CacheTypeOK, Held, NEW key \in Nat \ {0}, NEW value, sizeof(value) \in Nat,
         CacheSet(key, value)
  PROVE  /\ CacheTypeOK' /\ Held'
         /\ RamAccounted /\ (key \in DOMAIN held => sizeof(held[key]) = sizeof(value))
              => RamAccounted' /\ WithinMaxRam'
  <1>0. PICK K : K = Nat \ {0} /\ key \in K
    OBVIOUS
  <1>1. PICK old \in Seq(K) : old = order
    BY <1>0 DEF CacheTypeOK
  <1>2. /\ \A i, j \in 1 .. Len(old) : old[i] = old[j] => i = j
        /\ DOMAIN held = ToSet(old) /\ used \in Int
    BY <1>1 DEF CacheTypeOK, IsInjective
  <1>3. PICK keys \in Seq(K) : keys = MovedToEnd(key) /\ Moved(old, key, keys)
    BY <1>0, <1>1, MovedToEndMoves
  <1> DEFINE values == [k \in DOMAIN held \cup {key} |-> IF k = key THEN value ELSE held[k]]
  <1>4. PICK ram : ram = RamWith(key, value)
    OBVIOUS
  <1>5. PICK n : n = Evictions(keys, values, ram)
    OBVIOUS
  <1>6. /\ order' = SubSeq(keys, n + 1, Len(keys))
        /\ held' = Restrict(values, DOMAIN values \ ToSet(SubSeq(keys, 1, n)))
        /\ used' = ram - Sizes(keys, values)[n]
    BY <1>3, <1>4, <1>5 DEF CacheSet
  <1>7. ram \in Int
    BY <1>2, <1>4 DEF RamWith
  <1>8. /\ \A i, j \in 1 .. Len(keys) : keys[i] = keys[j] => i = j
        /\ ToSet(keys) = DOMAIN held \cup {key}
    <2>1. /\ \A i, j \in 1 .. Len(keys) : keys[i] = keys[j] => i = j
          /\ ToSet(keys) = ToSet(old) \cup {key}
      <3>1. key \in K /\ old \in Seq(K) /\ keys \in Seq(K) /\ Moved(old, key, keys)
        BY <1>0, <1>3
      <3> QED
        BY ONLY <1>2, <3>1, MovedKeys
    <2> QED
      BY <1>2, <2>1
  <1>9. /\ DOMAIN values = ToSet(keys)
        /\ values[key] = value /\ key \in ToSet(keys)
        /\ \A k \in DOMAIN held : k # key => values[k] = held[k]
        /\ \A k \in ToSet(keys) : sizeof(values[k]) \in Nat
    BY <1>8 DEF Held
  <1> HIDE DEF values
  <1>10. \A k \in 1 .. Len(keys) : keys[k] \in ToSet(keys)
    BY DEF ToSet
  <1>11. Sized(keys, values)
    BY <1>9, <1>10 DEF Sized
  <1>12. /\ n \in 0 .. Len(keys)
         /\ ram - Sizes(keys, values)[n] <= MaxRam \/ n = Len(keys)
    BY <1>5, <1>7, <1>11, EvictionsStop
  <1>13. PICK N \in Nat, m \in Nat : N = Len(keys) /\ m = N - n /\ n \in Nat /\ n + m = N
    BY <1>12
  <1>14. PICK left \in Seq(K) :
             /\ left = SubSeq(keys, n + 1, N) /\ Len(left) = m
             /\ \A k \in 1 .. m : left[k] = keys[n + k]
    <2>1. /\ SubSeq(keys, n + 1, N) \in Seq(K) /\ Len(SubSeq(keys, n + 1, N)) = m
          /\ \A k \in 1 .. m : SubSeq(keys, n + 1, N)[k] = keys[n + k]
      BY ONLY <1>12, <1>13, keys \in Seq(K)
    <2> QED
      BY ONLY <2>1
  <1>15. PICK gone \in Seq(K) :
             /\ gone = SubSeq(keys, 1, n) /\ Len(gone) = n
             /\ \A k \in 1 .. n : gone[k] = keys[k]
    <2>1. /\ SubSeq(keys, 1, n) \in Seq(K) /\ Len(SubSeq(keys, 1, n)) = n
          /\ \A k \in 1 .. n : SubSeq(keys, 1, n)[k] = keys[k]
      BY ONLY <1>12, <1>13, keys \in Seq(K)
    <2> QED
      BY ONLY <2>1
  <1>16. order' = left /\ held' = Restrict(values, DOMAIN values \ ToSet(gone))
    BY <1>6, <1>13, <1>14, <1>15
  <1>17. \A i, j \in 1 .. m : left[i] = left[j] => i = j
    <2> SUFFICES ASSUME NEW i \in 1 .. m, NEW j \in 1 .. m, left[i] = left[j] PROVE i = j
      OBVIOUS
    <2>1. n + i \in 1 .. Len(keys) /\ n + j \in 1 .. Len(keys)
      BY <1>13
    <2>2. keys[n + i] = keys[n + j]
      BY <1>14
    <2>3. n + i = n + j
      BY <1>8, <2>1, <2>2
    <2> QED
      BY <1>13, <2>3
  <1>18. ToSet(left) = ToSet(keys) \ ToSet(gone)
    <2>1. \A k \in ToSet(left) : \E i \in 1 .. m : k = keys[n + i]
      <3>1. \A k \in ToSet(left) : \E i \in 1 .. m : k = left[i]
        BY ONLY left \in Seq(K), <1>14, Places
      <3> QED
        <4> SUFFICES ASSUME NEW k \in ToSet(left) PROVE \E i \in 1 .. m : k = keys[n + i]
          OBVIOUS
        <4>1. PICK i \in 1 .. m : k = left[i]
          BY <3>1
        <4>2. left[i] = keys[n + i]
          BY <1>14
        <4> QED
          BY <4>1, <4>2
    <2>2. \A k \in ToSet(gone) : \E i \in 1 .. n : k = keys[i]
      <3>1. \A k \in ToSet(gone) : \E i \in 1 .. n : k = gone[i]
        BY ONLY gone \in Seq(K), <1>15, Places
      <3> QED
        BY ONLY <1>15, <3>1
    <2>3. \A i \in 1 .. m : n + i \in 1 .. N /\ keys[n + i] \in ToSet(left)
      <3>1. \A i \in 1 .. m : n + i \in 1 .. N
        BY <1>13
      <3>2. \A i \in 1 .. m : left[i] \in ToSet(left)
        BY <1>14, Places
      <3> QED
        BY ONLY <1>14, <3>1, <3>2
    <2>4. \A i \in 1 .. n : i \in 1 .. N /\ keys[i] \in ToSet(gone)
      <3>1. \A i \in 1 .. n : i \in 1 .. N
        BY <1>13
      <3>2. \A i \in 1 .. n : gone[i] \in ToSet(gone)
        BY <1>15, Places
      <3> QED
        BY ONLY <1>15, <3>1, <3>2
    <2>5. ToSet(left) \subseteq ToSet(keys)
      BY <1>10, <1>13, <2>1, <2>3
    <2>6. ToSet(left) \cap ToSet(gone) = {}
      <3> SUFFICES ASSUME NEW k \in ToSet(left), k \in ToSet(gone) PROVE FALSE
        OBVIOUS
      <3>1. PICK i \in 1 .. m, j \in 1 .. n : keys[n + i] = keys[j]
        BY <2>1, <2>2
      <3>2. n + i = j
        BY <1>8, <1>13, <2>3, <2>4, <3>1
      <3> QED
        BY <1>13, <3>2
    <2>7. ASSUME NEW k \in ToSet(keys), k \notin ToSet(gone)
          PROVE  k \in ToSet(left)
      <3>1. PICK i \in 1 .. N : k = keys[i]
        BY <1>13, Places
      <3>2. i \notin 1 .. n
        BY <2>4, <2>7, <3>1
      <3>3. i - n \in 1 .. m /\ n + (i - n) = i
        BY <1>13, <3>2
      <3>4. keys[n + (i - n)] \in ToSet(left)
        BY <2>3, <3>3
      <3> QED
        BY <3>1, <3>3, <3>4
    <2> QED
      BY <2>5, <2>6, <2>7
  <1>19. PICK now : now = held'
    OBVIOUS
  <1>27. DOMAIN now = ToSet(left) /\ \A k \in ToSet(left) : now[k] = values[k]
    BY <1>9, <1>16, <1>18, <1>19 DEF Restrict
  <1>20. \A k \in 1 .. m : left[k] \in ToSet(left)
    BY <1>14, Places
  <1>21. Sized(left, now)
    <2>1. \A k \in ToSet(left) : sizeof(now[k]) \in Nat
      BY <1>9, <1>18, <1>27
    <2> QED
      BY <1>14, <1>20, <2>1 DEF Sized
  <1>22. Sizes(keys, values)[N] = Sizes(keys, values)[n] + SizeSum(left, now)
    <2>1. \A k \in 1 .. m : sizeof(values[keys[n + k]]) = sizeof(now[left[k]])
      BY <1>14, <1>27, <1>20
    <2>2. Alike(keys, values, n, left, now, m)
      <3>1. n \in Nat /\ m \in Nat /\ n + m <= Len(keys) /\ m <= Len(left)
        BY ONLY <1>13, <1>14
      <3> QED
        BY ONLY <1>11, <1>21, <2>1, <3>1 DEF Alike
    <2>3. Sizes(keys, values)[n + m] = Sizes(keys, values)[n] + Sizes(left, now)[m]
      BY ONLY keys \in Seq(K), left \in Seq(K), <2>2, SameSizes
    <2> QED
      BY <1>13, <1>14, <2>3 DEF SizeSum
  <1>23. \A k \in 0 .. N : Sizes(keys, values)[k] \in Nat
    <2>1. Sizes(keys, values) \in [0 .. N -> Nat]
      BY <1>11, <1>13, SizesStep
    <2> QED
      BY ONLY <2>1
  <1>24. CacheTypeOK'
    <2>1. used' \in Int
      BY <1>6, <1>7, <1>12, <1>13, <1>23
    <2>2. IsInjective(left)
      <3>1. DOMAIN left = 1 .. m
        BY ONLY left \in Seq(K), <1>14
      <3> QED
        BY ONLY <1>17, <3>1 DEF IsInjective
    <2> QED
      BY <1>0, <1>14, <1>16, <1>19, <1>27, <2>1, <2>2 DEF CacheTypeOK
  <1>25. Held'
    BY <1>9, <1>18, <1>19, <1>27 DEF Held
  <1>26. ASSUME RamAccounted, key \in DOMAIN held => sizeof(held[key]) = sizeof(value)
         PROVE  RamAccounted' /\ WithinMaxRam'
    <2>1. ram = SizeSum(keys, values)
      <3>1. Sized(old, held)
        BY <1>2, Places DEF Sized, Held
      <3>2. \A k \in 1 .. Len(old) : old[k] # key => values[old[k]] = held[old[k]]
        BY <1>2, <1>9, Places
      <3>3. /\ (\A k \in 1 .. Len(old) : old[k] # key) =>
                  SizeSum(keys, values) = SizeSum(old, held) + sizeof(value)
            /\ (\E k \in 1 .. Len(old) : old[k] = key) =>
                  SizeSum(keys, values) + sizeof(held[key]) = SizeSum(old, held) + sizeof(value)
        <4>1. key \in K /\ old \in Seq(K) /\ keys \in Seq(K) /\ Moved(old, key, keys)
          BY <1>0, <1>3
        <4>2. /\ (\A k \in 1 .. Len(old) : old[k] # key) =>
                    SizeSum(keys, values) = SizeSum(old, held) + sizeof(values[key])
              /\ (\E k \in 1 .. Len(old) : old[k] = key) =>
                    SizeSum(keys, values) + sizeof(held[key])
                        = SizeSum(old, held) + sizeof(values[key])
          <5>1. SameBut(key, old, held, values)
            BY ONLY <3>2 DEF SameBut
          <5> QED
            BY ONLY <1>2, <1>11, <3>1, <4>1, <5>1, MovedSizes
        <4> QED
          BY <1>9, <4>2
      <3>4. used = SizeSum(old, held)
        BY <1>1, <1>26 DEF RamAccounted
      <3>5. CASE key \notin DOMAIN held
        <4>1. \A k \in 1 .. Len(old) : old[k] # key
          BY <1>2, <3>5 DEF ToSet
        <4> QED
          BY <1>4, <3>3, <3>4, <3>5, <4>1 DEF RamWith
      <3>6. CASE key \in DOMAIN held
        <4>1. \E k \in 1 .. Len(old) : old[k] = key
          BY <1>2, <3>6 DEF ToSet
        <4>2. SizeSum(keys, values) + sizeof(value) = used + sizeof(value)
          BY <1>26, <3>3, <3>4, <3>6, <4>1
        <4>3. SizeSum(keys, values) \in Nat
          BY <1>13, <1>23 DEF SizeSum
        <4>4. SizeSum(keys, values) = used
          BY <1>2, <4>2, <4>3
        <4> QED
          BY <1>4, <3>6, <4>4 DEF RamWith
      <3> QED
        BY <3>5, <3>6
    <2>2. ram = Sizes(keys, values)[n] + SizeSum(left, now)
      BY <1>13, <1>22, <2>1 DEF SizeSum
    <2>3. SizeSum(left, now) \in Nat
      <3>1. Sizes(left, now) \in [0 .. m -> Nat]
        BY <1>14, <1>21, SizesStep
      <3> QED
        BY <1>14, <3>1 DEF SizeSum
    <2>4. Sizes(keys, values)[n] \in Nat /\ MaxRam \in Nat
      BY <1>12, <1>13, <1>23, BoundAssumption
    <2>5. used' = SizeSum(left, now)
      BY <1>6, <2>2, <2>3, <2>4, SMTT(30)
    <2>6. SizeSum(left, now) <= MaxRam
      <3>1. CASE ram - Sizes(keys, values)[n] <= MaxRam
        BY <2>2, <2>3, <2>4, <3>1
      <3>2. CASE n = Len(keys)
        <4>1. Len(left) = 0
          BY <1>13, <1>14, <3>2
        <4>2. SizeSum(left, now) = 0
          BY <1>14, <1>21, <4>1, SizesStep, ZenonT(30) DEF SizeSum
        <4> QED
          BY <2>4, <4>2
      <3> QED
        BY <1>12, <3>1, <3>2
    <2> QED
      BY <1>16, <1>19, <2>5, <2>6 DEF RamAccounted, WithinMaxRam
  <1> QED
    BY <1>24, <1>25, <1>26

=============================================================================
