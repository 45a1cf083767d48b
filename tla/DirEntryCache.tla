--------------------------- MODULE DirEntryCache ---------------------------
(***************************************************************************)
(* The in-memory cache from directory inodes to their entries: an          *)
(* OrderedDict whose __setitem__ keeps a running size and evicts from the  *)
(* front while it exceeds max_ram.  Its methods have no await: each one is *)
(* a single step.  A value is the sequence of a directory's entries.       *)
(***************************************************************************)

EXTENDS Integers, SequencesExt

CONSTANTS
    Keys,   \* the directory inodes
    MaxRam  \* direntry.maxram, in bytes

VARIABLES
    order,  \* the keys, from the next to be evicted to the last stored
    held,   \* the value of each of them
    used    \* used_ram

CacheInit ==
    /\ order = <<>>
    /\ held = <<>>
    /\ used = 0

\* "Rough size estimate in bytes for a list of entries"
sizeof(value) == Len(value) * 1000

\* The size of the first n of these keys' values, for each n.
Sizes(keys, values) ==
    LET sum[n \in 0 .. Len(keys)] ==
            IF n = 0 THEN 0 ELSE sum[n - 1] + sizeof(values[keys[n]])
    IN  sum

SizeSum(keys, values) == Sizes(keys, values)[Len(keys)]

\* get() is dict.get: it does not come through __getitem__, and moves nothing.
CacheGet(key) == IF key \in DOMAIN held THEN held[key] ELSE <<>>

\* A new key comes in at the end, and move_to_end takes one that is there to it.
MovedToEnd(key) ==
    IF key \in DOMAIN held
      THEN LET i == CHOOSE i \in 1 .. Len(order) : order[i] = key
           IN  Append(RemoveAt(order, i), key)
      ELSE Append(order, key)

\* Mutant: "if" for "while".
MutEvictions(keys, values, ram) ==
    IF ram > MaxRam /\ keys # <<>> THEN 1 ELSE 0

\* How many of the oldest keys the loop of __setitem__ deletes.
Evictions(keys, values, ram) ==
    CHOOSE n \in 0 .. Len(keys) :
        /\ ram - Sizes(keys, values)[n] <= MaxRam \/ n = Len(keys)
        /\ \A m \in 0 .. n - 1 : ram - Sizes(keys, values)[m] > MaxRam

\* Mutant: the size is added again for a key that is replaced.
MutRamWith(key, value) == used + sizeof(value)

\* The size is added for a new key only, whatever the size of what it replaces.
RamWith(key, value) ==
    IF key \in DOMAIN held THEN used ELSE used + sizeof(value)

CacheSet(key, value) ==
    LET keys == MovedToEnd(key)
        values == [k \in DOMAIN held \cup {key} |->
                      IF k = key THEN value ELSE held[k]]
        n == Evictions(keys, values, RamWith(key, value))
    IN  /\ order' = SubSeq(keys, n + 1, Len(keys))
        /\ held' = Restrict(values, DOMAIN values \ ToSet(SubSeq(keys, 1, n)))
        /\ used' = RamWith(key, value) - Sizes(keys, values)[n]

-----------------------------------------------------------------------------
(* Properties.                                                             *)

CacheTypeOK ==
    /\ order \in Seq(Keys)
    /\ IsInjective(order)
    /\ DOMAIN held = ToSet(order)
    /\ used \in Int

\* used_ram is the size of what is held, however entries were replaced and
\* evicted, as long as a directory's listing keeps its length.
RamAccounted == used = SizeSum(order, held)

\* What is held fits in maxram ("how much memory should be used by the direntry
\* cache"), whatever the sizes that __setitem__ took for granted.
WithinMaxRam == SizeSum(order, held) <= MaxRam

=============================================================================
