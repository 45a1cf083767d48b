------------------------- MODULE ReadThroughProofs -------------------------
(***************************************************************************)
(* Proofs about ReadThrough, for any number of mounts, tasks and artifacts *)
(* and every mixture of requests, crashes and refused locks.               *)
(*                                                                         *)
(* A step is either quiet, and changes no row anyone sees, or it moves     *)
(* rows of one table and marks the requests it disturbs; QuietKeeps and    *)
(* MovesKeeps carry the invariant over to every task but the one that      *)
(* steps, and each action then has to answer for its own task alone.       *)
(***************************************************************************)

EXTENDS ReadThrough, TLAPS

Others(t) ==
    \A u \in Tasks \ {t} :
        /\ pc'[u] = pc[u] /\ op'[u] = op[u] /\ swhid'[u] = swhid[u]
        /\ kind'[u] = kind[u] /\ answer'[u] = answer[u]

Quiet(t) ==
    /\ disk' = disk /\ draft' = draft
    /\ \A u \in Tasks \ {t} : raced'[u] = raced[u]
    /\ \A n \in Mounts, j \in Kinds :
           lock'[n][j] \in Writing <=> lock[n][j] \in Writing

\* Of the rows of table k, lost may leave a view and gained may enter one.
Moves(t, k, lost, gained) ==
    /\ Disturbs(t, k, lost, gained)
    /\ \A j \in Kinds \ {k} :
           disk'[j] = disk[j] /\ \A n \in Mounts : View(n, j)' = View(n, j)
    /\ disk'[k] \subseteq disk[k] \cup gained
    /\ \A n \in Mounts :
           /\ View(n, k) \subseteq View(n, k)' \cup lost
           /\ View(n, k)' \subseteq View(n, k) \cup gained

-----------------------------------------------------------------------------
(* What a step leaves alone.                                               *)

LEMMA InPlace ==
  ASSUME TypeOK, NEW t \in Tasks
  PROVE  MountOf[t] \in Mounts /\ kind[t] \in Kinds
  BY MountAssumption DEF TypeOK

LEMMA QuietView ==
  ASSUME NEW t, Quiet(t), NEW n \in Mounts, NEW j \in Kinds
  PROVE  View(n, j)' = View(n, j)
  BY DEF Quiet, View

LEMMA OtherTasks ==
  ASSUME IInv, NEW t \in Tasks, Others(t), NEW u \in Tasks \ {t}
  PROVE  TaskInv(u)'
  BY DEF IInv, TaskInv, Others, Reading

LEMMA QuietStore ==
  ASSUME IInv, NEW t, Quiet(t)
  PROVE  StoreInv'
  BY DEF IInv, StoreInv, Quiet

LEMMA QuietRows ==
  ASSUME IInv, NEW t \in Tasks, Quiet(t), Others(t), NEW u \in Tasks \ {t}
  PROVE  RowInv(u)'
  <1>1. MountOf[u] \in Mounts /\ kind[u] \in Kinds /\ "metadata" \in Kinds
        /\ "blob" \in Kinds
    BY InPlace DEF IInv, Kinds
  <1>2. \A j \in Kinds : View(MountOf[u], j)' = View(MountOf[u], j)
    BY <1>1, QuietView
  <1>3. RowInv(u)
    BY DEF IInv
  <1>4. /\ op'[u] = op[u] /\ pc'[u] = pc[u] /\ swhid'[u] = swhid[u]
        /\ kind'[u] = kind[u] /\ answer'[u] = answer[u] /\ raced'[u] = raced[u]
        /\ disk' = disk
    BY DEF Others, Quiet
  <1>5. Reading(u)' <=> Reading(u)
    BY <1>4 DEF Reading
  <1> QED
    BY <1>1, <1>2, <1>3, <1>4, <1>5 DEF RowInv

LEMMA QuietKeeps ==
  ASSUME IInv, NEW t \in Tasks, Quiet(t), Others(t),
         TypeOK', TaskInv(t)', RowInv(t)'
  PROVE  IInv'
  BY OtherTasks, QuietStore, QuietRows DEF IInv

LEMMA MovesRows ==
  ASSUME IInv, NEW t \in Tasks, NEW k \in Kinds, NEW lost, NEW gained,
         Moves(t, k, lost, gained), Others(t), NEW u \in Tasks \ {t}
  PROVE  RowInv(u)'
  <1>1. MountOf[u] \in Mounts /\ kind[u] \in Kinds /\ "metadata" \in Kinds
        /\ "blob" \in Kinds
    BY InPlace DEF IInv, Kinds
  <1>2. RowInv(u) /\ TaskInv(u)
    BY DEF IInv
  <1>3. raced[u] => raced'[u]
    BY DEF Moves, Disturbs
  <1>4. CASE raced'[u]
    BY <1>4 DEF RowInv
  <1>5. CASE ~raced'[u]
    <2>1. ~raced[u]
      BY <1>3, <1>5
    <2>2. Reading(u) /\ k = "metadata" => swhid[u] \notin lost
      BY <1>5 DEF Moves, Disturbs
    <2>3. op[u] = "blob" /\ k = "blob" => swhid[u] \notin gained
      BY <1>5 DEF Moves, Disturbs
    <2>4. op[u] = "unlink" => swhid[u] \notin gained
      BY <1>5 DEF Moves, Disturbs
    <2>5. op'[u] = op[u] /\ pc'[u] = pc[u] /\ swhid'[u] = swhid[u]
          /\ kind'[u] = kind[u] /\ answer'[u] = answer[u]
      BY DEF Others
    <2>6. Reading(u)' <=> Reading(u)
      BY <2>5 DEF Reading
    <2>7. ASSUME Reading(u), pc[u] \in {"commit", "reget", "raw"}
          PROVE  swhid[u] \in View(MountOf[u], "metadata")'
      BY <1>1, <1>2, <2>1, <2>2, <2>7 DEF RowInv, Moves
    <2>8. ASSUME op[u] = "blob", pc[u] \in {"fetch", "insert"}
          PROVE  swhid[u] \notin View(MountOf[u], "blob")'
      BY <1>1, <1>2, <2>1, <2>3, <2>8 DEF RowInv, Moves
    <2>9. ASSUME op[u] = "unlink", pc[u] = "commit", NEW j \in Kinds, kind[u] = j
          PROVE  swhid[u] \notin View(MountOf[u], j)'
      BY <1>1, <1>2, <2>1, <2>4, <2>9 DEF RowInv, Moves
    <2>10. ASSUME op[u] = "unlink", NEW j \in Kinds, swhid[u] \notin disk[j]
           PROVE  swhid[u] \notin disk'[j]
      BY <2>4, <2>10 DEF Moves
    <2>11. answer[u] = "removed" => op[u] = "unlink"
      BY <1>2 DEF TaskInv
    <2> QED
      BY <1>1, <1>2, <2>1, <2>5, <2>6, <2>7, <2>8, <2>9, <2>10, <2>11
      DEF RowInv
  <1> QED
    BY <1>4, <1>5

LEMMA MovesKeeps ==
  ASSUME IInv, NEW t \in Tasks, NEW k \in Kinds, NEW lost, NEW gained,
         Moves(t, k, lost, gained), Others(t),
         TypeOK', StoreInv', TaskInv(t)', RowInv(t)'
  PROVE  IInv'
  BY OtherTasks, MovesRows DEF IInv

-----------------------------------------------------------------------------
(* Steps that change no row.                                               *)

\* The lock of the task's connection may change, but not to or from a write.
QuietLock(t) ==
    \/ lock' = lock
    \/ LockAfterRead(MountOf[t], kind[t])
    \/ LockAfterRefusal(MountOf[t], kind[t])
    \/ /\ lock[MountOf[t]][kind[t]] \in Writing
       /\ SetLock(MountOf[t], kind[t], "pending")

LEMMA LockType ==
  ASSUME TypeOK, NEW m \in Mounts, NEW k \in Kinds, NEW state \in Locks,
         SetLock(m, k, state)
  PROVE  /\ lock' \in [Mounts -> [Kinds -> Locks]]
         /\ \A n \in Mounts, j \in Kinds :
               lock'[n][j] = IF n = m /\ j = k THEN state ELSE lock[n][j]
  BY DEF TypeOK, SetLock

LEMMA QuietLockType ==
  ASSUME TypeOK, NEW t \in Tasks, QuietLock(t)
  PROVE  /\ lock' \in [Mounts -> [Kinds -> Locks]]
         /\ \A n \in Mounts, j \in Kinds :
               lock'[n][j] \in Writing <=> lock[n][j] \in Writing
  <1> DEFINE m == MountOf[t]
             k == kind[t]
             old == lock[m][k]
             read == IF old = "begun" THEN "shared" ELSE old
             refused == IF old = "none" THEN "begun" ELSE old
  <1>1. m \in Mounts /\ k \in Kinds
    BY InPlace
  <1>2. old \in Locks /\ read \in Locks /\ refused \in Locks /\ "pending" \in Locks
    BY <1>1 DEF TypeOK, Locks
  <1>3. CASE lock' = lock
    BY <1>3 DEF TypeOK
  <1>4. CASE SetLock(m, k, read)
    <2>1. read \in Writing <=> old \in Writing
      BY DEF Writing
    <2> HIDE DEF read
    <2> QED
      BY <1>1, <1>2, <1>4, <2>1, LockType
  <1>5. CASE SetLock(m, k, refused)
    <2>1. refused \in Writing <=> old \in Writing
      BY DEF Writing
    <2> HIDE DEF refused
    <2> QED
      BY <1>1, <1>2, <1>5, <2>1, LockType
  <1>6. CASE old \in Writing /\ SetLock(m, k, "pending")
    BY <1>1, <1>2, <1>6, LockType DEF Writing
  <1> QED
    BY <1>3, <1>4, <1>5, <1>6 DEF QuietLock, LockAfterRead, LockAfterRefusal

\* A step of a task that changes its label and its answer only.
LEMMA LocalStep ==
  ASSUME IInv, NEW t \in Tasks, QuietLock(t),
         NEW l \in Labels, pc' = [pc EXCEPT ![t] = l],
         NEW w \in Answers \cup {"none"}, answer' = [answer EXCEPT ![t] = w],
         UNCHANGED <<disk, draft, op, swhid, kind, raced>>,
         TaskInv(t)', RowInv(t)'
  PROVE  IInv'
  <1>1. TypeOK
    BY DEF IInv
  <1>2. Quiet(t)
    BY <1>1, QuietLockType DEF Quiet
  <1>3. Others(t)
    BY <1>1 DEF Others, TypeOK
  <1>4. TypeOK'
    BY <1>1, QuietLockType DEF TypeOK
  <1> QED
    BY <1>2, <1>3, <1>4, QuietKeeps

LEMMA LocalView ==
  ASSUME IInv, NEW t \in Tasks, QuietLock(t), UNCHANGED <<disk, draft>>
  PROVE  \A k \in Kinds : View(MountOf[t], k)' = View(MountOf[t], k)
  <1>1. MountOf[t] \in Mounts
    BY InPlace DEF IInv
  <1> QED
    BY <1>1, QuietLockType DEF IInv, View

LEMMA SelectRefusedKeeps ==
  ASSUME IInv, NEW t \in Tasks, SelectRefused(t), pc[t] \in {"get", "reget", "raw"}
  PROVE  IInv'
  <1>1. TypeOK /\ TaskInv(t) /\ RowInv(t)
    BY DEF IInv
  <1>2. /\ QuietLock(t)
        /\ pc' = [pc EXCEPT ![t] = "done"]
        /\ answer' = [answer EXCEPT ![t] = "locked"]
        /\ UNCHANGED <<disk, draft, op, swhid, kind, raced>>
    BY DEF SelectRefused, Finish, QuietLock, store, request
  <1>3. pc'[t] = "done" /\ answer'[t] = "locked"
    BY <1>1, <1>2 DEF TypeOK
  <1>4. TaskInv(t)'
    BY <1>1, <1>2, <1>3 DEF TaskInv, Reading
  <1>5. RowInv(t)'
    BY <1>1, <1>2, <1>3, LocalView DEF RowInv, TaskInv, Reading
  <1> QED
    BY <1>2, <1>4, <1>5, LocalStep DEF Labels, Answers

LEMMA WriteRefusedKeeps ==
  ASSUME IInv, NEW t \in Tasks, WriteRefused(t), pc[t] \in {"insert", "delete"}
  PROVE  IInv'
  <1>1. TypeOK /\ TaskInv(t) /\ RowInv(t)
    BY DEF IInv
  <1>2. /\ QuietLock(t)
        /\ pc' = [pc EXCEPT ![t] = "done"]
        /\ answer' = [answer EXCEPT ![t] = "locked"]
        /\ UNCHANGED <<disk, draft, op, swhid, kind, raced>>
    BY DEF WriteRefused, Finish, QuietLock, request
  <1>3. pc'[t] = "done" /\ answer'[t] = "locked"
    BY <1>1, <1>2 DEF TypeOK
  <1>4. TaskInv(t)'
    BY <1>1, <1>2, <1>3 DEF TaskInv, Reading
  <1>5. RowInv(t)'
    BY <1>1, <1>2, <1>3, LocalView DEF RowInv, TaskInv, Reading
  <1> QED
    BY <1>2, <1>4, <1>5, LocalStep DEF Labels, Answers

LEMMA GetKeeps ==
  ASSUME IInv, NEW t \in Tasks, Get(t)
  PROVE  IInv'
  <1>1. TypeOK /\ TaskInv(t) /\ RowInv(t) /\ "metadata" \in Kinds /\ "blob" \in Kinds
    BY DEF IInv, Kinds
  <1>2. CASE SelectRefused(t)
    BY <1>2, SelectRefusedKeeps DEF Get
  <1>3. CASE ~SelectRefused(t)
    <2>1. /\ QuietLock(t) /\ pc[t] = "get" /\ answer[t] = "none"
          /\ UNCHANGED <<disk, draft, op, swhid, kind, raced>>
      BY <1>1, <1>3 DEF Get, QuietLock, request, TaskInv
    <2>2. \A k \in Kinds : View(MountOf[t], k)' = View(MountOf[t], k)
      BY <2>1, LocalView
    <2>3. CASE ~Readable(t) /\ GoTo(t, "fetch")
      <3>1. /\ pc' = [pc EXCEPT ![t] = "fetch"] /\ pc'[t] = "fetch"
            /\ answer' = [answer EXCEPT ![t] = "none"] /\ answer'[t] = "none"
        BY <1>1, <2>1, <2>3 DEF GoTo, TypeOK
      <3>2. TaskInv(t)'
        BY <1>1, <2>1, <3>1 DEF TaskInv, Reading
      <3>3. op[t] = "blob" => swhid[t] \notin View(MountOf[t], "blob")
        BY <1>1, <2>3 DEF Readable, TaskInv
      <3>4. RowInv(t)'
        BY <1>1, <2>1, <2>2, <3>1, <3>3 DEF RowInv, TaskInv, Reading
      <3> QED
        BY <2>1, <3>1, <3>2, <3>4, LocalStep DEF Labels
    <2>4. CASE Readable(t) /\ op[t] = "json" /\ GoTo(t, "raw")
      <3>1. /\ pc' = [pc EXCEPT ![t] = "raw"] /\ pc'[t] = "raw"
            /\ answer' = [answer EXCEPT ![t] = "none"] /\ answer'[t] = "none"
        BY <1>1, <2>1, <2>4 DEF GoTo, TypeOK
      <3>2. TaskInv(t)'
        BY <1>1, <2>1, <2>4, <3>1 DEF TaskInv, Reading
      <3>3. swhid[t] \in View(MountOf[t], "metadata")
        BY <1>1, <2>4 DEF Readable, TaskInv, Reading
      <3>4. RowInv(t)'
        BY <1>1, <2>1, <2>2, <2>4, <3>1, <3>3 DEF RowInv, TaskInv, Reading
      <3> QED
        BY <2>1, <3>1, <3>2, <3>4, LocalStep DEF Labels
    <2>5. CASE Readable(t) /\ op[t] # "json" /\ Finish(t, "data")
      <3>1. /\ pc' = [pc EXCEPT ![t] = "done"] /\ pc'[t] = "done"
            /\ answer' = [answer EXCEPT ![t] = "data"] /\ answer'[t] = "data"
        BY <1>1, <2>5 DEF Finish, TypeOK
      <3>2. TaskInv(t)'
        BY <1>1, <2>1, <3>1 DEF TaskInv, Reading
      <3>3. RowInv(t)'
        BY <1>1, <2>1, <2>2, <3>1 DEF RowInv, TaskInv, Reading
      <3> QED
        BY <2>1, <3>1, <3>2, <3>3, LocalStep DEF Labels, Answers
    <2> QED
      BY <1>3, <2>3, <2>4, <2>5 DEF Get
  <1> QED
    BY <1>2, <1>3

LEMMA FetchKeeps ==
  ASSUME IInv, NEW t \in Tasks, Fetch(t)
  PROVE  IInv'
  <1>1. TypeOK /\ TaskInv(t) /\ RowInv(t) /\ "metadata" \in Kinds /\ "blob" \in Kinds
    BY DEF IInv, Kinds
  <1>2. /\ QuietLock(t) /\ pc[t] = "fetch" /\ answer[t] = "none"
        /\ UNCHANGED <<disk, draft, op, swhid, kind, raced>>
    BY <1>1 DEF Fetch, QuietLock, request, store, TaskInv
  <1>3. \A k \in Kinds : View(MountOf[t], k)' = View(MountOf[t], k)
    BY <1>2, LocalView
  <1>4. ASSUME NEW w \in {"data", "unavailable"}, Finish(t, w)
        PROVE  IInv'
    <2>1. /\ pc' = [pc EXCEPT ![t] = "done"] /\ pc'[t] = "done"
          /\ answer' = [answer EXCEPT ![t] = w] /\ answer'[t] = w
      BY <1>1, <1>4 DEF Finish, TypeOK
    <2>2. TaskInv(t)'
      BY <1>1, <1>2, <2>1 DEF TaskInv, Reading
    <2>3. RowInv(t)'
      BY <1>1, <1>2, <1>3, <2>1 DEF RowInv, TaskInv, Reading
    <2> QED
      BY <1>2, <2>1, <2>2, <2>3, LocalStep DEF Labels, Answers
  <1>5. CASE ~(kind[t] = "blob" /\ Bypass) /\ GoTo(t, "insert")
    <2>1. /\ pc' = [pc EXCEPT ![t] = "insert"] /\ pc'[t] = "insert"
          /\ answer' = [answer EXCEPT ![t] = "none"] /\ answer'[t] = "none"
      BY <1>1, <1>2, <1>5 DEF GoTo, TypeOK
    <2>2. TaskInv(t)'
      BY <1>1, <1>2, <1>5, <2>1 DEF TaskInv, Reading
    <2>3. RowInv(t)'
      BY <1>1, <1>2, <1>3, <2>1 DEF RowInv, TaskInv, Reading
    <2> QED
      BY <1>2, <2>1, <2>2, <2>3, LocalStep DEF Labels
  <1> QED
    BY <1>4, <1>5 DEF Fetch

LEMMA RegetKeeps ==
  ASSUME IInv, NEW t \in Tasks, Reget(t)
  PROVE  IInv'
  <1>1. TypeOK /\ TaskInv(t) /\ RowInv(t) /\ "metadata" \in Kinds /\ "blob" \in Kinds
    BY DEF IInv, Kinds
  <1>2. CASE SelectRefused(t)
    BY <1>2, SelectRefusedKeeps DEF Reget
  <1>3. CASE ~SelectRefused(t)
    <2>1. /\ QuietLock(t) /\ pc[t] = "reget" /\ answer[t] = "none"
          /\ UNCHANGED <<disk, draft, op, swhid, kind, raced>>
      BY <1>1, <1>3 DEF Reget, QuietLock, request, TaskInv
    <2>2. \A k \in Kinds : View(MountOf[t], k)' = View(MountOf[t], k)
      BY <2>1, LocalView
    <2>3. CASE op[t] = "json" /\ GoTo(t, "raw")
      <3>1. /\ pc' = [pc EXCEPT ![t] = "raw"] /\ pc'[t] = "raw"
            /\ answer' = [answer EXCEPT ![t] = "none"] /\ answer'[t] = "none"
        BY <1>1, <2>1, <2>3 DEF GoTo, TypeOK
      <3>2. TaskInv(t)'
        BY <1>1, <2>1, <2>3, <3>1 DEF TaskInv, Reading
      <3>3. RowInv(t)'
        BY <1>1, <2>1, <2>2, <2>3, <3>1 DEF RowInv, TaskInv, Reading
      <3> QED
        BY <2>1, <3>1, <3>2, <3>3, LocalStep DEF Labels
    <2>4. CASE op[t] # "json" /\ Finish(t, IF Readable(t) THEN "data" ELSE "null")
      <3> DEFINE w == IF Readable(t) THEN "data" ELSE "null"
      <3>1. /\ pc' = [pc EXCEPT ![t] = "done"] /\ pc'[t] = "done"
            /\ answer' = [answer EXCEPT ![t] = w] /\ answer'[t] = w
        BY <1>1, <2>4 DEF Finish, TypeOK
      <3>2. w \in {"data", "null"} /\ Reading(t) /\ op[t] = "metadata"
        BY <1>1, <2>1, <2>4 DEF TaskInv, Reading
      <3>3. w = "null" => raced[t] \/ swhid[t] \in Untypable
        BY <1>1, <2>1, <3>2 DEF Readable, RowInv, TaskInv
      <3> HIDE DEF w
      <3>4. TaskInv(t)'
        BY <1>1, <2>1, <3>1, <3>2 DEF TaskInv, Reading
      <3>5. RowInv(t)'
        BY <1>1, <2>1, <2>2, <3>1, <3>2, <3>3 DEF RowInv, TaskInv, Reading
      <3> QED
        BY <2>1, <3>1, <3>2, <3>4, <3>5, LocalStep DEF Labels, Answers
    <2> QED
      BY <1>3, <2>3, <2>4 DEF Reget
  <1> QED
    BY <1>2, <1>3

LEMMA RawKeeps ==
  ASSUME IInv, NEW t \in Tasks, Raw(t)
  PROVE  IInv'
  <1>1. TypeOK /\ TaskInv(t) /\ RowInv(t) /\ "metadata" \in Kinds /\ "blob" \in Kinds
    BY DEF IInv, Kinds
  <1>2. CASE SelectRefused(t)
    BY <1>2, SelectRefusedKeeps DEF Raw
  <1>3. CASE ~SelectRefused(t)
    <2> DEFINE w == IF swhid[t] \in View(MountOf[t], kind[t]) THEN "data" ELSE "null"
    <2>1. /\ QuietLock(t) /\ pc[t] = "raw" /\ op[t] = "json"
          /\ UNCHANGED <<disk, draft, op, swhid, kind, raced>>
      BY <1>1, <1>3 DEF Raw, QuietLock, request, TaskInv
    <2>2. \A k \in Kinds : View(MountOf[t], k)' = View(MountOf[t], k)
      BY <2>1, LocalView
    <2>3. /\ pc' = [pc EXCEPT ![t] = "done"] /\ pc'[t] = "done"
          /\ answer' = [answer EXCEPT ![t] = w] /\ answer'[t] = w
      BY <1>1, <1>3 DEF Raw, Finish, TypeOK
    <2>4. w \in {"data", "null"} /\ (w = "null" => raced[t])
      BY <1>1, <2>1 DEF RowInv, TaskInv, Reading
    <2> HIDE DEF w
    <2>5. TaskInv(t)'
      BY <1>1, <2>1, <2>3, <2>4 DEF TaskInv, Reading
    <2>6. RowInv(t)'
      BY <1>1, <2>1, <2>2, <2>3, <2>4 DEF RowInv, TaskInv, Reading
    <2> QED
      BY <2>1, <2>3, <2>4, <2>5, <2>6, LocalStep DEF Labels, Answers
  <1> QED
    BY <1>2, <1>3

LEMMA StartKeeps ==
  ASSUME IInv, NEW t \in Tasks, NEW o \in Asked, NEW s \in Swhid, Start(t, o, s)
  PROVE  IInv'
  <1>1. TypeOK /\ TaskInv(t) /\ RowInv(t) /\ o \in Ops
    BY MountAssumption DEF IInv, Ops
  <1> DEFINE l == IF o = "unlink" THEN "delete" ELSE "get"
             k == IF o = "blob" THEN "blob" ELSE "metadata"
  <1>2. /\ pc[t] = "idle" /\ pc' = [pc EXCEPT ![t] = l] /\ op' = [op EXCEPT ![t] = o]
        /\ swhid' = [swhid EXCEPT ![t] = s] /\ kind' = [kind EXCEPT ![t] = k]
        /\ UNCHANGED <<disk, draft, lock, answer, raced>>
    BY DEF Start, store
  <1>3. l \in Labels /\ k \in Kinds
    BY DEF Labels, Kinds
  <1>4. Quiet(t)
    BY <1>2 DEF Quiet
  <1>5. Others(t)
    BY <1>1, <1>2 DEF Others, TypeOK
  <1>6. TypeOK'
    BY <1>1, <1>2, <1>3 DEF TypeOK
  <1>7. /\ pc'[t] = l /\ op'[t] = o /\ swhid'[t] = s /\ kind'[t] = k
        /\ answer'[t] = "none" /\ op[t] = "none"
    BY <1>1, <1>2 DEF TypeOK, TaskInv
  <1>8. TaskInv(t)'
    BY <1>1, <1>7 DEF TaskInv, Reading, Ops
  <1>9. RowInv(t)'
    BY <1>1, <1>7 DEF RowInv, Reading, Ops
  <1> QED
    BY <1>4, <1>5, <1>6, <1>8, <1>9, QuietKeeps

LEMMA ReplyKeeps ==
  ASSUME IInv, NEW t \in Tasks, Reply(t)
  PROVE  IInv'
  <1>1. TypeOK /\ TaskInv(t) /\ RowInv(t)
    BY DEF IInv
  <1>2. Quiet(t)
    BY <1>1 DEF Quiet, Reply, store, TypeOK
  <1>3. Others(t)
    BY <1>1 DEF Others, Reply, TypeOK
  <1>4. TypeOK'
    BY <1>1 DEF TypeOK, Reply, store, Labels, Kinds
  <1>5. /\ pc'[t] = "idle" /\ op'[t] = "none" /\ kind'[t] = "metadata"
        /\ answer'[t] = "none"
    BY <1>1 DEF Reply, TypeOK
  <1>6. TaskInv(t)'
    BY <1>5 DEF TaskInv, Reading
  <1>7. RowInv(t)'
    BY <1>5 DEF RowInv, Reading
  <1> QED
    BY <1>2, <1>3, <1>4, <1>6, <1>7, QuietKeeps

-----------------------------------------------------------------------------
(* Steps that move rows.                                                   *)

LEMMA DisturbsType ==
  ASSUME TypeOK, NEW t \in Tasks, NEW k, NEW lost, NEW gained,
         Disturbs(t, k, lost, gained)
  PROVE  raced' \in [Tasks -> BOOLEAN] /\ raced'[t] = raced[t]
  <1>1. raced' \in [Tasks -> BOOLEAN]
    BY Zenon DEF TypeOK, Disturbs
  <1>2. raced'[t] = raced[t]
    BY Zenon DEF TypeOK, Disturbs
  <1> QED
    BY <1>1, <1>2

\* A write that is granted: the lock is taken, and the draft, which was what
\* the connection saw, becomes rows.
Writes(m, k, rows) ==
    /\ CanWrite(m, k)
    /\ LockAfterWrite(m, k)
    /\ draft' = [draft EXCEPT ![k] = rows]
    /\ UNCHANGED disk

LEMMA WriteLock ==
  ASSUME IInv, NEW m \in Mounts, NEW k \in Kinds, LockAfterWrite(m, k)
  PROVE  /\ lock' \in [Mounts -> [Kinds -> Locks]]
         /\ lock'[m][k] \in Writing
         /\ \A n \in Mounts, j \in Kinds :
               n # m \/ j # k => lock'[n][j] = lock[n][j]
  <1> DEFINE new == IF lock[m][k] = "pending" THEN "pending" ELSE "reserved"
  <1>1. TypeOK /\ new \in Locks /\ new \in Writing
    BY DEF IInv, Locks, Writing
  <1>2. SetLock(m, k, new)
    BY DEF LockAfterWrite
  <1> HIDE DEF new
  <1> QED
    BY <1>1, <1>2, LockType

LEMMA OnlyWriter ==
  ASSUME NEW m \in Mounts, NEW k \in Kinds, CanWrite(m, k),
         NEW n \in Mounts, n # m
  PROVE  lock[n][k] \notin Writing
  BY DEF CanWrite, Rival

LEMMA OwnView ==
  ASSUME IInv, NEW m \in Mounts, NEW k \in Kinds, CanWrite(m, k)
  PROVE  draft[k] = View(m, k)
  BY OnlyWriter DEF IInv, StoreInv, View

LEMMA WriteViews ==
  ASSUME IInv, NEW m \in Mounts, NEW k \in Kinds, NEW rows, Writes(m, k, rows)
  PROVE  /\ View(m, k)' = rows
         /\ \A n \in Mounts, j \in Kinds :
               n # m \/ j # k => View(n, j)' = View(n, j)
  <1>1. TypeOK
    BY DEF IInv
  <1>2. View(m, k)' = rows
    BY <1>1, WriteLock DEF Writes, TypeOK, View
  <1>3. ASSUME NEW n \in Mounts, NEW j \in Kinds, n # m \/ j # k
        PROVE  View(n, j)' = View(n, j)
    <2>1. lock'[n][j] = lock[n][j] /\ disk' = disk
      BY <1>3, WriteLock DEF Writes
    <2>2. CASE j # k
      BY <1>1, <2>1, <2>2 DEF View, Writes, TypeOK
    <2>3. CASE j = k
      BY <1>3, <2>1, <2>3, OnlyWriter DEF View, Writes
    <2> QED
      BY <2>2, <2>3
  <1> QED
    BY <1>2, <1>3

LEMMA WriteStore ==
  ASSUME IInv, NEW m \in Mounts, NEW k \in Kinds, NEW rows, Writes(m, k, rows),
         Bypass /\ k = "blob" => rows = {}
  PROVE  StoreInv'
  <1>1. TypeOK
    BY DEF IInv
  <1> SUFFICES ASSUME NEW j \in Kinds
               PROVE  /\ \A n, o \in Mounts :
                            lock'[n][j] \in Writing /\ lock'[o][j] \in Writing => n = o
                      /\ (\A n \in Mounts : lock'[n][j] \notin Writing)
                            => draft'[j] = disk'[j]
                      /\ Bypass /\ j = "blob" => disk'[j] = {} /\ draft'[j] = {}
    BY DEF StoreInv
  <1>2. disk' = disk /\ draft' = [draft EXCEPT ![k] = rows]
    BY DEF Writes
  <1>3. CASE j = k
    <2>1. lock'[m][j] \in Writing /\ draft'[j] = rows
      BY <1>1, <1>2, <1>3, WriteLock DEF Writes, TypeOK
    <2>2. \A n \in Mounts : n # m => lock'[n][j] \notin Writing
      BY <1>3, WriteLock, OnlyWriter DEF Writes
    <2> QED
      BY <1>2, <1>3, <2>1, <2>2 DEF IInv, StoreInv
  <1>4. CASE j # k
    <2>1. draft'[j] = draft[j] /\ \A n \in Mounts : lock'[n][j] = lock[n][j]
      BY <1>1, <1>2, <1>4, WriteLock DEF Writes, TypeOK
    <2> QED
      BY <1>2, <2>1 DEF IInv, StoreInv
  <1> QED
    BY <1>3, <1>4

LEMMA WriteMoves ==
  ASSUME IInv, NEW t \in Tasks, NEW m \in Mounts, NEW k \in Kinds,
         NEW lost, NEW gained, NEW rows, Writes(m, k, rows),
         Disturbs(t, k, lost, gained),
         View(m, k) \subseteq rows \cup lost, rows \subseteq View(m, k) \cup gained
  PROVE  Moves(t, k, lost, gained)
  <1>1. disk' = disk
    BY DEF Writes
  <1>2. ASSUME NEW n \in Mounts
        PROVE  /\ View(n, k) \subseteq View(n, k)' \cup lost
               /\ View(n, k)' \subseteq View(n, k) \cup gained
    <2>1. CASE n = m
      <3>1. View(m, k)' = rows
        BY WriteViews
      <3> HIDE DEF View
      <3> QED
        BY <2>1, <3>1
    <2>2. CASE n # m
      <3>1. View(n, k)' = View(n, k)
        BY <2>2, WriteViews
      <3> QED
        BY <3>1
    <2> QED
      BY <2>1, <2>2
  <1>3. ASSUME NEW j \in Kinds \ {k}, NEW n \in Mounts
        PROVE  View(n, j)' = View(n, j)
    BY WriteViews
  <1> QED
    BY <1>1, <1>2, <1>3 DEF Moves

LEMMA InsertKeeps ==
  ASSUME IInv, NEW t \in Tasks, Insert(t)
  PROVE  IInv'
  <1>1. CASE WriteRefused(t)
    BY <1>1, WriteRefusedKeeps DEF Insert
  <1>2. CASE ~WriteRefused(t)
    <2> DEFINE m == MountOf[t]
    <2>1. PICK k \in Kinds : k = kind[t]
      BY InPlace DEF IInv
    <2>2. TypeOK /\ TaskInv(t) /\ RowInv(t) /\ m \in Mounts
          /\ "metadata" \in Kinds /\ "blob" \in Kinds
      BY InPlace DEF IInv, Kinds
    <2>3. /\ pc[t] = "insert" /\ answer[t] = "none" /\ swhid[t] \in Swhid
          /\ op[t] # "unlink" /\ ~(k = "blob" /\ Bypass)
          /\ UNCHANGED <<disk, op, swhid, kind>>
          /\ CanWrite(m, k) /\ LockAfterWrite(m, k)
      BY <1>2, <2>1, <2>2 DEF Insert, TaskInv, request, Reading
    <2>4. lock' \in [Mounts -> [Kinds -> Locks]]
      BY <2>2, <2>3, WriteLock
    <2>5. draft[k] = View(m, k)
      BY <2>2, <2>3, OwnView
    <2>6. CASE /\ k = "blob" /\ swhid[t] \in View(m, k) /\ Finish(t, "duplicate")
               /\ UNCHANGED <<draft, raced>>
      <3>1. Writes(m, k, View(m, k))
        BY <2>2, <2>3, <2>5, <2>6 DEF Writes, TypeOK
      <3>2. \A n \in Mounts, j \in Kinds : View(n, j)' = View(n, j)
        BY <2>2, <3>1, WriteViews
      <3>3. Disturbs(t, k, {}, {})
        BY <2>2, <2>6 DEF Disturbs, TypeOK
      <3>4. Moves(t, k, {}, {})
        BY <2>2, <3>1, <3>3, WriteMoves
      <3>5. StoreInv'
        BY <2>2, <2>3, <3>1, WriteStore
      <3>6. pc'[t] = "done" /\ answer'[t] = "duplicate"
        BY <2>2, <2>6 DEF Finish, TypeOK
      <3>7. Others(t) /\ TypeOK'
        BY <2>2, <2>3, <2>4, <2>6 DEF Others, Finish, TypeOK, Labels, Answers
      <3>8. op[t] = "blob"
        BY <2>1, <2>2, <2>3, <2>6 DEF TaskInv, Reading
      <3>9. TaskInv(t)'
        BY <2>2, <2>3, <3>6, <3>8 DEF TaskInv, Reading
      <3>10. raced[t]
        BY <2>2, <2>3, <2>6, <3>8 DEF RowInv
      <3>11. RowInv(t)'
        BY <2>6, <3>10 DEF RowInv
      <3> QED
        BY <3>4, <3>5, <3>7, <3>9, <3>11, MovesKeeps
    <2>7. CASE /\ k = "blob" => swhid[t] \notin View(m, k)
               /\ draft' = [draft EXCEPT ![k] = @ \cup {swhid[t]}]
               /\ Disturbs(t, k, {}, {swhid[t]} \ View(m, k))
               /\ GoTo(t, "commit")
      <3> DEFINE rows == View(m, k) \cup {swhid[t]}
                 gained == {swhid[t]} \ View(m, k)
      <3>1. Writes(m, k, rows)
        BY <2>2, <2>3, <2>5, <2>7 DEF Writes, TypeOK
      <3>2. View(m, k)' = rows
        BY <2>2, <3>1, WriteViews
      <3>3. Moves(t, k, {}, gained)
        BY <2>2, <2>7, <3>1, WriteMoves
      <3>4. StoreInv'
        BY <2>2, <2>3, <3>1, WriteStore
      <3>5. raced' \in [Tasks -> BOOLEAN] /\ raced'[t] = raced[t]
        BY <2>2, <2>7, DisturbsType
      <3>6. pc'[t] = "commit" /\ answer'[t] = "none"
        BY <2>2, <2>3, <2>7 DEF GoTo, TypeOK
      <3>7. Others(t) /\ TypeOK'
        BY <2>2, <2>3, <2>4, <2>7, <3>5 DEF Others, GoTo, TypeOK, Labels
      <3>8. TaskInv(t)'
        BY <2>1, <2>2, <2>3, <3>6 DEF TaskInv, Reading
      <3>9. RowInv(t)'
        <4>1. Reading(t)' => swhid'[t] \in View(MountOf[t], "metadata")'
          BY <2>1, <2>2, <2>3, <3>2 DEF TaskInv, Reading
        <4> QED
          BY <2>2, <2>3, <3>6, <4>1 DEF RowInv, TaskInv
      <3> QED
        BY <3>3, <3>4, <3>7, <3>8, <3>9, MovesKeeps
    <2> QED
      BY <1>2, <2>1, <2>6, <2>7 DEF Insert
  <1> QED
    BY <1>1, <1>2

LEMMA DeleteKeeps ==
  ASSUME IInv, NEW t \in Tasks, Delete(t)
  PROVE  IInv'
  <1>1. CASE WriteRefused(t)
    BY <1>1, WriteRefusedKeeps DEF Delete
  <1>2. CASE ~WriteRefused(t)
    <2> DEFINE m == MountOf[t]
    <2>1. PICK k \in Kinds : k = kind[t]
      BY InPlace DEF IInv
    <2>2. TypeOK /\ TaskInv(t) /\ RowInv(t) /\ m \in Mounts
          /\ "metadata" \in Kinds /\ "blob" \in Kinds
      BY InPlace DEF IInv, Kinds
    <2> DEFINE s == swhid[t]
               rows == View(m, k) \ {s}
               lost == {s} \cap View(m, k)
    <2>3. /\ pc[t] = "delete" /\ answer[t] = "none" /\ s \in Swhid
          /\ op[t] = "unlink" /\ ~(k = "blob" /\ Bypass)
          /\ UNCHANGED <<disk, op, swhid, kind>>
          /\ CanWrite(m, k) /\ LockAfterWrite(m, k)
          /\ draft' = [draft EXCEPT ![k] = @ \ {s}]
          /\ Disturbs(t, k, lost, {}) /\ GoTo(t, "commit")
      BY <1>2, <2>1, <2>2 DEF Delete, TaskInv, request, Reading
    <2>4. lock' \in [Mounts -> [Kinds -> Locks]]
      BY <2>2, <2>3, WriteLock
    <2>5. draft[k] = View(m, k)
      BY <2>2, <2>3, OwnView
    <2>6. Writes(m, k, rows)
      BY <2>2, <2>3, <2>5 DEF Writes, TypeOK
    <2>7. View(m, k)' = rows
      BY <2>2, <2>6, WriteViews
    <2>8. Moves(t, k, lost, {})
      BY <2>2, <2>3, <2>6, WriteMoves
    <2>9. StoreInv'
      BY <2>2, <2>3, <2>6, WriteStore
    <2>10. raced' \in [Tasks -> BOOLEAN] /\ raced'[t] = raced[t]
      BY <2>2, <2>3, DisturbsType
    <2>11. pc'[t] = "commit" /\ answer'[t] = "none"
      BY <2>2, <2>3 DEF GoTo, TypeOK
    <2>12. Others(t) /\ TypeOK'
      BY <2>2, <2>3, <2>4, <2>10 DEF Others, GoTo, TypeOK, Labels
    <2>13. TaskInv(t)'
      BY <2>1, <2>2, <2>3, <2>11 DEF TaskInv, Reading
    <2>14. RowInv(t)'
      <3>1. \A j \in Kinds : kind'[t] = j => swhid'[t] \notin View(m, j)'
        BY <2>1, <2>3, <2>7
      <3>2. raced[t] \/ (kind[t] = "blob" => swhid[t] \notin disk["metadata"])
        BY <2>2, <2>3 DEF RowInv
      <3> HIDE DEF s
      <3> QED
        BY <2>2, <2>3, <2>10, <2>11, <3>1, <3>2 DEF RowInv, Reading
    <2> QED
      BY <2>8, <2>9, <2>12, <2>13, <2>14, MovesKeeps
  <1> QED
    BY <1>1, <1>2

LEMMA CommitKeeps ==
  ASSUME IInv, NEW t \in Tasks, Commit(t)
  PROVE  IInv'
  <1> DEFINE m == MountOf[t]
  <1>1. PICK k \in Kinds : k = kind[t]
    BY InPlace DEF IInv
  <1>2. /\ TypeOK /\ StoreInv /\ TaskInv(t) /\ RowInv(t) /\ m \in Mounts
        /\ "metadata" \in Kinds /\ "blob" \in Kinds
    BY InPlace DEF IInv, Kinds
  <1>3. /\ pc[t] = "commit" /\ answer[t] = "none" /\ ~(k = "blob" /\ Bypass)
        /\ UNCHANGED <<draft, op, swhid>>
    BY <1>1, <1>2 DEF Commit, TaskInv, request
  <1>4. CASE /\ ~CanCommit(m, k) /\ SetLock(m, k, "pending") /\ Finish(t, "locked")
             /\ UNCHANGED <<disk, kind, raced>>
    <2>1. QuietLock(t)
      BY <1>1, <1>4 DEF QuietLock, CanCommit
    <2>2. \A j \in Kinds : View(m, j)' = View(m, j)
      BY <1>3, <1>4, <2>1, LocalView
    <2>3. /\ pc' = [pc EXCEPT ![t] = "done"] /\ pc'[t] = "done"
          /\ answer' = [answer EXCEPT ![t] = "locked"] /\ answer'[t] = "locked"
      BY <1>2, <1>4 DEF Finish, TypeOK
    <2>4. TaskInv(t)'
      BY <1>2, <1>3, <1>4, <2>3 DEF TaskInv, Reading
    <2>5. RowInv(t)'
      BY <1>2, <1>3, <1>4, <2>2, <2>3 DEF RowInv, Reading
    <2> QED
      BY <1>3, <1>4, <2>1, <2>3, <2>4, <2>5, LocalStep DEF Labels, Answers
  <1>5. CASE /\ disk' = [disk EXCEPT ![k] = View(m, k)] /\ SetLock(m, k, "none")
             /\ Disturbs(t, k, disk[k] \ View(m, k), View(m, k) \ disk[k])
             /\ AfterCommit(t)
    <2> DEFINE rows == View(m, k)
               lost == disk[k] \ rows
               gained == rows \ disk[k]
    <2>1. /\ lock' \in [Mounts -> [Kinds -> Locks]]
          /\ lock'[m][k] = "none"
          /\ \A n \in Mounts, j \in Kinds :
                n # m \/ j # k => lock'[n][j] = lock[n][j]
      BY <1>2, <1>5, LockType DEF Locks
    <2>2. rows \in SUBSET Swhid
      BY <1>2 DEF TypeOK, View
    <2>3. disk' \in [Kinds -> SUBSET Swhid] /\ disk'[k] = rows
          /\ \A j \in Kinds : j # k => disk'[j] = disk[j]
      BY <1>2, <1>5, <2>2 DEF TypeOK
    <2>4. View(m, k)' = rows
      BY <2>1, <2>3 DEF View, Writing
    <2>5. ASSUME NEW n \in Mounts, NEW j \in Kinds, j # k
          PROVE  View(n, j)' = View(n, j)
      BY <1>3, <2>1, <2>3, <2>5 DEF View
    <2>6. ASSUME NEW n \in Mounts
          PROVE  /\ View(n, k) \subseteq View(n, k)' \cup lost
                 /\ View(n, k)' \subseteq View(n, k) \cup gained
      <3>1. CASE n = m
        <4> HIDE DEF View
        <4> QED
          BY <2>4, <3>1
      <3>2. CASE n # m /\ lock[n][k] \in Writing
        <4>1. View(n, k)' = View(n, k)
          BY <1>3, <2>1, <3>2 DEF View
        <4> QED
          BY <4>1
      <3>3. CASE n # m /\ lock[n][k] \notin Writing
        <4>1. View(n, k)' = rows /\ View(n, k) = disk[k]
          BY <2>1, <2>3, <3>3 DEF View
        <4> HIDE DEF View
        <4> QED
          BY <4>1
      <3> QED
        BY <3>1, <3>2, <3>3
    <2>7. Moves(t, k, lost, gained)
      <3>1. disk'[k] \subseteq disk[k] \cup gained
        BY <2>3
      <3> QED
        BY <1>5, <2>3, <2>5, <2>6, <3>1 DEF Moves
    <2>8. StoreInv'
      <3>1. ASSUME NEW n \in Mounts, NEW o \in Mounts, NEW j \in Kinds,
                   lock'[n][j] \in Writing, lock'[o][j] \in Writing
            PROVE  n = o
        BY <1>2, <2>1, <3>1 DEF StoreInv, Writing
      <3>2. ASSUME NEW j \in Kinds, \A n \in Mounts : lock'[n][j] \notin Writing
            PROVE  draft'[j] = disk'[j]
        <4>1. CASE j # k
          BY <1>2, <1>3, <2>1, <2>3, <3>2, <4>1 DEF StoreInv
        <4>2. CASE j = k /\ lock[m][k] \in Writing
          BY <1>3, <2>3, <4>2 DEF View
        <4>3. CASE j = k /\ lock[m][k] \notin Writing
          <5>1. \A n \in Mounts : lock[n][k] \notin Writing
            BY <2>1, <3>2, <4>3
          <5> QED
            BY <1>2, <1>3, <2>3, <4>3, <5>1 DEF StoreInv, View
        <4> QED
          BY <4>1, <4>2, <4>3
      <3>3. Bypass => disk'["blob"] = {} /\ draft'["blob"] = {}
        BY <1>2, <1>3, <2>3 DEF StoreInv
      <3> QED
        BY <3>1, <3>2, <3>3 DEF StoreInv
    <2>9. raced' \in [Tasks -> BOOLEAN] /\ raced'[t] = raced[t]
      BY <1>2, <1>5, DisturbsType
    <2>10. ASSUME Reading(t), GoTo(t, "reget"), kind' = kind
           PROVE  IInv'
      <3>1. pc'[t] = "reget" /\ answer'[t] = "none"
        BY <1>2, <1>3, <2>10 DEF GoTo, TypeOK
      <3>2. Others(t) /\ TypeOK'
        BY <1>2, <1>3, <2>1, <2>3, <2>9, <2>10
        DEF Others, GoTo, TypeOK, Labels
      <3>3. TaskInv(t)'
        BY <1>2, <1>3, <2>10, <3>1 DEF TaskInv, Reading
      <3>4. k = "metadata"
        BY <1>1, <1>2, <2>10 DEF TaskInv
      <3>5. raced[t] \/ swhid'[t] \in View(MountOf[t], "metadata")'
        BY <1>2, <1>3, <2>4, <2>10, <3>4 DEF RowInv
      <3>6. RowInv(t)'
        BY <1>2, <1>3, <2>9, <2>10, <3>1, <3>5 DEF RowInv, TaskInv, Reading
      <3> QED
        BY <2>7, <2>8, <3>2, <3>3, <3>6, MovesKeeps
    <2>11. ASSUME op[t] = "blob", Finish(t, "data"), kind' = kind
           PROVE  IInv'
      <3>1. pc'[t] = "done" /\ answer'[t] = "data"
        BY <1>2, <1>3, <2>11 DEF Finish, TypeOK
      <3>2. Others(t) /\ TypeOK'
        BY <1>2, <1>3, <2>1, <2>3, <2>9, <2>11
        DEF Others, Finish, TypeOK, Labels, Answers
      <3>3. TaskInv(t)'
        BY <1>2, <1>3, <2>11, <3>1 DEF TaskInv, Reading
      <3>4. RowInv(t)'
        BY <1>2, <1>3, <2>9, <2>11, <3>1 DEF RowInv, Reading
      <3> QED
        BY <2>7, <2>8, <3>2, <3>3, <3>4, MovesKeeps
    <2>12. ASSUME op[t] = "unlink", kind[t] = "metadata", ~Bypass,
                  GoTo(t, "delete"), kind' = [kind EXCEPT ![t] = "blob"]
           PROVE  IInv'
      <3>1. pc'[t] = "delete" /\ answer'[t] = "none" /\ kind'[t] = "blob"
        BY <1>2, <1>3, <2>12 DEF GoTo, TypeOK
      <3>2. Others(t) /\ TypeOK'
        BY <1>2, <1>3, <2>1, <2>3, <2>9, <2>12
        DEF Others, GoTo, TypeOK, Labels
      <3>3. TaskInv(t)'
        BY <1>2, <1>3, <2>12, <3>1 DEF TaskInv, Reading
      <3>4. raced[t] \/ swhid[t] \notin disk'["metadata"]
        BY <1>1, <1>2, <1>3, <2>3, <2>12 DEF RowInv
      <3>5. RowInv(t)'
        BY <1>2, <1>3, <2>9, <2>12, <3>1, <3>4 DEF RowInv, Reading
      <3> QED
        BY <2>7, <2>8, <3>2, <3>3, <3>5, MovesKeeps
    <2>13. ASSUME op[t] = "unlink", kind[t] = "blob" \/ Bypass,
                  Finish(t, "removed"), kind' = kind
           PROVE  IInv'
      <3>1. pc'[t] = "done" /\ answer'[t] = "removed"
        BY <1>2, <1>3, <2>13 DEF Finish, TypeOK
      <3>2. Others(t) /\ TypeOK'
        BY <1>2, <1>3, <2>1, <2>3, <2>9, <2>13
        DEF Others, Finish, TypeOK, Labels, Answers
      <3>3. TaskInv(t)'
        BY <1>2, <1>3, <2>13, <3>1 DEF TaskInv, Reading
      <3>4. raced[t] \/ swhid[t] \notin disk'[k]
        BY <1>1, <1>2, <1>3, <2>3, <2>13 DEF RowInv
      <3>5. raced[t] \/ \A j \in Kinds : swhid'[t] \notin disk'[j]
        <4>1. CASE k = "blob"
          BY <1>1, <1>2, <1>3, <2>3, <2>13, <3>4, <4>1 DEF RowInv, Kinds
        <4>2. CASE k # "blob"
          BY <1>1, <1>2, <1>3, <2>3, <2>13, <3>4, <4>2 DEF StoreInv, Kinds
        <4> QED
          BY <4>1, <4>2
      <3>6. op'[t] = "unlink"
        BY <1>3, <2>13
      <3>7. RowInv(t)'
        BY <1>2, <2>9, <3>1, <3>5, <3>6 DEF RowInv, Reading
      <3> QED
        BY <2>7, <2>8, <3>2, <3>3, <3>7, MovesKeeps
    <2> QED
      BY <1>5, <2>10, <2>11, <2>12, <2>13 DEF AfterCommit
  <1> QED
    BY <1>1, <1>4, <1>5 DEF Commit

\* The tasks of the mount that ends are idle again; the other mounts, if any,
\* share database files with it, and see the committed rows as before.
LEMMA CrashKeeps ==
  ASSUME IInv, NEW m \in Mounts, Crash(m)
  PROVE  IInv'
  <1>1. /\ TypeOK /\ StoreInv /\ "metadata" \in Kinds /\ "blob" \in Kinds
    BY DEF IInv, Kinds
  <1>2. \A k \in Kinds : Kept(k) \in SUBSET Swhid
    BY <1>1 DEF Kept, TypeOK
  <1>3. /\ disk' \in [Kinds -> SUBSET Swhid]
        /\ draft' \in [Kinds -> SUBSET Swhid]
        /\ \A k \in Kinds : disk'[k] = Kept(k)
        /\ \A k \in Kinds :
              draft'[k] = IF k \notin OnDisk \/ lock[m][k] \in Writing
                          THEN Kept(k) ELSE draft[k]
    BY <1>1, <1>2 DEF Crash, TypeOK
  <1>4. /\ lock' \in [Mounts -> [Kinds -> Locks]]
        /\ \A k \in Kinds : lock'[m][k] \notin Writing
        /\ \A n \in Mounts : n # m => lock'[n] = lock[n]
    BY <1>1 DEF Crash, TypeOK, Locks, Writing
  <1>5. ASSUME NEW t \in Tasks, MountOf[t] = m
        PROVE  /\ pc'[t] = "idle" /\ op'[t] = "none" /\ kind'[t] = "metadata"
               /\ answer'[t] = "none"
    BY <1>5 DEF Crash
  <1>6. ASSUME NEW t \in Tasks, MountOf[t] # m
        PROVE  /\ pc'[t] = pc[t] /\ op'[t] = op[t] /\ kind'[t] = kind[t]
               /\ answer'[t] = answer[t] /\ swhid'[t] = swhid[t]
    BY <1>6 DEF Crash
  <1>7. ASSUME NEW t \in Tasks, MountOf[t] # m
        PROVE  raced'[t] <=> raced[t]
    BY <1>7 DEF Crash
  <1>8. TypeOK'
    <2>1. raced' \in [Tasks -> BOOLEAN]
      BY Zenon DEF Crash
    <2>2. /\ pc' \in [Tasks -> Labels] /\ op' \in [Tasks -> Ops \cup {"none"}]
          /\ swhid' \in [Tasks -> Swhid \cup {NoSwhid}]
          /\ kind' \in [Tasks -> Kinds]
          /\ answer' \in [Tasks -> Answers \cup {"none"}]
      BY <1>1 DEF Crash, TypeOK, Labels
    <2> QED
      BY <1>3, <1>4, <2>1, <2>2 DEF TypeOK
  <1>9. StoreInv'
    <2>1. ASSUME NEW n \in Mounts, NEW o \in Mounts, NEW k \in Kinds,
                 lock'[n][k] \in Writing, lock'[o][k] \in Writing
          PROVE  n = o
      BY <1>1, <1>4, <2>1 DEF StoreInv
    <2>2. ASSUME NEW k \in Kinds, \A n \in Mounts : lock'[n][k] \notin Writing
          PROVE  draft'[k] = disk'[k]
      <3>1. CASE k \notin OnDisk \/ lock[m][k] \in Writing
        BY <1>3, <3>1
      <3>2. CASE ~(k \notin OnDisk \/ lock[m][k] \in Writing)
        <4>1. \A n \in Mounts : lock[n][k] \notin Writing
          BY <1>4, <2>2, <3>2
        <4> QED
          BY <1>1, <1>3, <3>2, <4>1 DEF StoreInv, Kept
      <3> QED
        BY <3>1, <3>2
    <2>3. Bypass => disk'["blob"] = {} /\ draft'["blob"] = {}
      BY <1>1, <1>3 DEF StoreInv, Kept
    <2> QED
      BY <2>1, <2>2, <2>3 DEF StoreInv
  <1>10. ASSUME NEW t \in Tasks
         PROVE  TaskInv(t)' /\ RowInv(t)'
    <2>1. CASE MountOf[t] = m
      BY <1>5, <2>1 DEF TaskInv, RowInv, Reading
    <2>2. CASE MountOf[t] # m
      <3> DEFINE n == MountOf[t]
      <3>1. n \in Mounts /\ OnDisk = Kinds /\ TaskInv(t) /\ RowInv(t)
        BY <1>1, <2>2, InPlace, MemoryAssumption DEF IInv
      <3>2. \A k \in Kinds : disk'[k] = disk[k]
        BY <1>3, <3>1 DEF Kept
      <3>3. ASSUME NEW k \in Kinds
            PROVE  View(n, k)' = View(n, k)
        <4>1. lock'[n][k] = lock[n][k]
          BY <1>4, <2>2, <3>1
        <4>2. CASE lock[n][k] \notin Writing
          BY <3>2, <4>1, <4>2 DEF View
        <4>3. CASE lock[n][k] \in Writing
          <5>1. lock[m][k] \notin Writing
            BY <1>1, <2>2, <3>1, <4>3 DEF StoreInv
          <5> QED
            BY <1>3, <3>1, <4>1, <4>3, <5>1 DEF View
        <4> QED
          BY <4>2, <4>3
      <3>4. TaskInv(t)'
        BY <1>6, <2>2, <3>1 DEF TaskInv, Reading
      <3>5. RowInv(t)'
        BY <1>1, <1>6, <1>7, <2>2, <3>1, <3>2, <3>3 DEF RowInv, Reading
      <3> QED
        BY <3>4, <3>5
    <2> QED
      BY <2>1, <2>2
  <1> QED
    BY <1>8, <1>9, <1>10 DEF IInv

-----------------------------------------------------------------------------
(* The invariant, and what follows from it.                                *)

LEMMA InitHolds ==
  ASSUME Init
  PROVE  IInv
  <1>1. TypeOK
    <2>1. raced \in [Tasks -> BOOLEAN]
      BY Zenon DEF Init
    <2> QED
      BY <2>1 DEF Init, TypeOK, Locks, Labels, Kinds
  <1>2. StoreInv
    BY DEF Init, StoreInv, Writing, Kinds
  <1>3. ASSUME NEW t \in Tasks
        PROVE  TaskInv(t) /\ RowInv(t)
    BY DEF Init, TaskInv, RowInv, Reading
  <1> QED
    BY <1>1, <1>2, <1>3 DEF IInv

LEMMA NextKeeps ==
  ASSUME IInv, [Next]_vars
  PROVE  IInv'
  <1>1. CASE UNCHANGED vars
    <2>1. /\ disk' = disk /\ draft' = draft /\ lock' = lock /\ pc' = pc
          /\ op' = op /\ swhid' = swhid /\ kind' = kind /\ answer' = answer
          /\ raced' = raced
      BY <1>1 DEF vars
    <2>2. TypeOK' /\ StoreInv'
      BY <2>1 DEF IInv, TypeOK, StoreInv
    <2>3. ASSUME NEW n, NEW j
          PROVE  View(n, j)' = View(n, j)
      BY <2>1 DEF View
    <2>4. ASSUME NEW t \in Tasks
          PROVE  TaskInv(t)' /\ RowInv(t)'
      BY <2>1, <2>3 DEF IInv, TaskInv, RowInv, Reading
    <2> QED
      BY <2>2, <2>4 DEF IInv
  <1>2. ASSUME NEW t \in Tasks, NEW o \in Asked, NEW s \in Swhid, Start(t, o, s)
        PROVE  IInv'
    BY <1>2, StartKeeps
  <1>3. ASSUME NEW t \in Tasks, Step(t)
        PROVE  IInv'
    BY <1>3, GetKeeps, FetchKeeps, InsertKeeps, CommitKeeps, RegetKeeps,
       RawKeeps, DeleteKeeps, ReplyKeeps DEF Step
  <1>4. ASSUME NEW m \in Mounts, Crash(m)
        PROVE  IInv'
    BY <1>4, CrashKeeps
  <1> QED
    BY <1>1, <1>2, <1>3, <1>4 DEF Next

\* The invariant holds in every reachable state.
THEOREM Invariance == Spec => []IInv
  <1>1. Init => IInv
    BY InitHolds
  <1>2. IInv /\ [Next]_vars => IInv'
    BY NextKeeps
  <1> QED
    BY <1>1, <1>2, PTL DEF Spec

\* Every variable keeps its type, whatever the requests and the failures.
THEOREM TypeCorrect == Spec => []TypeOK
  <1>1. IInv => TypeOK
    BY DEF IInv
  <1> QED
    BY <1>1, Invariance, PTL

\* FuseCache and Fuse.get_metadata: no request answers None or null unless its
\* row was purged under it or typify_json cannot read it.
THEOREM NullNeedsPurge == Spec => []NullOnlyAfterPurge
  <1>1. IInv => NullOnlyAfterPurge
    BY DEF IInv, RowInv, NullOnlyAfterPurge
  <1> QED
    BY <1>1, Invariance, PTL

\* BlobCache.set: its insert raises only when another request stored the blob
\* after this one had found it missing.
THEOREM DuplicateNeedsRace == Spec => []DuplicateOnlyAfterRace
  <1>1. IInv => DuplicateOnlyAfterRace
    BY DEF IInv, RowInv, DuplicateOnlyAfterRace
  <1> QED
    BY <1>1, Invariance, PTL

\* ArtifactShardBySwhid.unlink: a purge that succeeded has left no row in any
\* table, across every interleaving, lock and crash, unless the artifact was
\* stored again meanwhile.
THEOREM PurgeLasts == Spec => []PurgeSticks
  <1>1. IInv => PurgeSticks
    BY DEF IInv, RowInv, PurgeSticks
  <1> QED
    BY <1>1, Invariance, PTL

-----------------------------------------------------------------------------
(* Two processes that block each other.                                    *)

LEMMA BlockedApart ==
  ASSUME NEW m \in Mounts, NEW n \in Mounts, NEW k \in OnDisk, Blocked(m, n, k)
  PROVE  m # n /\ k \in Kinds /\ ~CanWrite(n, k) /\ ~CanCommit(m, k)
  <1>1. m # n /\ k \in Kinds
    BY MountAssumption DEF Blocked
  <1>2. Rival(n, k, Writing) /\ Rival(m, k, {"shared"})
    BY <1>1 DEF Blocked, Rival, Writing
  <1> QED
    BY <1>1, <1>2 DEF CanWrite, CanCommit, Blocked, Writing

\* A step sets the lock of its own connection, and not these two to another
\* state; and it does not bring its task to a commit there.
LEMMA BlockedBySet ==
  ASSUME TypeOK, NEW m \in Mounts, NEW n \in Mounts, NEW k \in OnDisk,
         Blocked(m, n, k), NEW t \in Tasks, Others(t),
         ~(MountOf[t] = n /\ kind'[t] = k /\ pc'[t] = "commit"),
         NEW state,
         \/ lock' = lock
         \/ /\ SetLock(MountOf[t], kind[t], state)
            /\ MountOf[t] = m /\ kind[t] = k => state = "pending"
            /\ MountOf[t] = n /\ kind[t] = k => state = "shared"
  PROVE  Blocked(m, n, k)'
  <1>1. m # n /\ k \in Kinds
    BY BlockedApart
  <1>2. lock'[m][k] = "pending" /\ lock'[n][k] = "shared"
    BY <1>1 DEF TypeOK, Blocked, SetLock
  <1>3. \A u \in Tasks : ~(MountOf[u] = n /\ kind'[u] = k /\ pc'[u] = "commit")
    BY DEF Others, Blocked
  <1> QED
    BY <1>2, <1>3 DEF Blocked

LEMMA StepBlocked ==
  ASSUME IInv, NEW m \in Mounts, NEW n \in Mounts, NEW k \in OnDisk,
         Blocked(m, n, k), NEW t \in Tasks, Step(t)
  PROVE  Blocked(m, n, k)'
  <1>1. TypeOK /\ m # n /\ k \in Kinds /\ ~CanWrite(n, k) /\ ~CanCommit(m, k)
    BY BlockedApart DEF IInv
  <1>2. lock[m][k] = "pending" /\ lock[n][k] = "shared"
        /\ ~(MountOf[t] = n /\ kind[t] = k /\ pc[t] = "commit")
    BY DEF Blocked
  <1> DEFINE old == lock[MountOf[t]][kind[t]]
             read == IF old = "begun" THEN "shared" ELSE old
             written == IF old = "pending" THEN "pending" ELSE "reserved"
             refused == IF old = "none" THEN "begun" ELSE old
  <1>3. /\ MountOf[t] = m /\ kind[t] = k =>
              read = "pending" /\ written = "pending" /\ refused = "pending"
        /\ MountOf[t] = n /\ kind[t] = k => read = "shared" /\ refused = "shared"
    BY <1>2
  <1> HIDE DEF read, written, refused
  <1>4. Others(t)
    BY <1>1 DEF Step, Get, SelectRefused, Fetch, Insert, WriteRefused, Commit,
       AfterCommit, Reget, Raw, Delete, Reply, GoTo, Finish, request, Others, TypeOK
  <1>5. CASE SelectRefused(t)
    <2>1. lock' = lock /\ pc'[t] = "done"
      BY <1>1, <1>5 DEF SelectRefused, Finish, store, TypeOK
    <2> QED
      BY <1>1, <1>4, <2>1, BlockedBySet
  <1>6. CASE LockAfterRead(MountOf[t], kind[t]) /\ (Get(t) \/ Reget(t) \/ Raw(t))
    <2>1. pc'[t] # "commit"
      BY <1>1, <1>6 DEF Get, Reget, Raw, SelectRefused, GoTo, Finish, TypeOK
    <2>2. SetLock(MountOf[t], kind[t], read)
      BY <1>6 DEF LockAfterRead, read
    <2> QED
      BY <1>1, <1>3, <1>4, <2>1, <2>2, BlockedBySet
  <1>7. CASE WriteRefused(t)
    <2>1. pc'[t] = "done" /\ SetLock(MountOf[t], kind[t], refused)
      BY <1>1, <1>7 DEF WriteRefused, Finish, TypeOK, LockAfterRefusal, refused
    <2> QED
      BY <1>1, <1>3, <1>4, <2>1, BlockedBySet
  <1>8. CASE /\ CanWrite(MountOf[t], kind[t]) /\ LockAfterWrite(MountOf[t], kind[t])
             /\ kind' = kind
    <2>1. ~(MountOf[t] = n /\ kind[t] = k)
      BY <1>1, <1>8
    <2>2. SetLock(MountOf[t], kind[t], written)
      BY <1>8 DEF LockAfterWrite, written
    <2> QED
      BY <1>1, <1>3, <1>4, <1>8, <2>1, <2>2, BlockedBySet
  <1>9. CASE Commit(t)
    <2>1. pc'[t] # "commit"
      BY <1>1, <1>9 DEF Commit, AfterCommit, GoTo, Finish, TypeOK
    <2>2. ~(MountOf[t] = n /\ kind[t] = k)
      BY <1>2, <1>9 DEF Commit
    <2>3. CASE SetLock(MountOf[t], kind[t], "pending")
      BY <1>1, <1>4, <2>1, <2>2, <2>3, BlockedBySet
    <2>4. CASE CanCommit(MountOf[t], kind[t]) /\ SetLock(MountOf[t], kind[t], "none")
      <3>1. ~(MountOf[t] = m /\ kind[t] = k)
        BY <1>1, <2>4
      <3> QED
        BY <1>1, <1>4, <2>1, <2>2, <2>4, <3>1, BlockedBySet
    <2> QED
      BY <1>9, <2>3, <2>4 DEF Commit
  <1>10. CASE Fetch(t) \/ Reply(t)
    <2>1. lock' = lock /\ pc'[t] # "commit"
      BY <1>1, <1>10 DEF Fetch, Reply, GoTo, Finish, store, TypeOK
    <2> QED
      BY <1>1, <1>4, <2>1, BlockedBySet
  <1> QED
    BY <1>5, <1>6, <1>7, <1>8, <1>9, <1>10
    DEF Step, Get, Reget, Raw, Insert, Delete

LEMMA OtherBlocked ==
  ASSUME IInv, NEW m \in Mounts, NEW n \in Mounts, NEW k \in OnDisk,
         Blocked(m, n, k), [Next]_vars, ~Crash(m), ~Crash(n)
  PROVE  Blocked(m, n, k)'
  <1>1. TypeOK
    BY DEF IInv
  <1>2. CASE UNCHANGED vars
    BY <1>2 DEF vars, Blocked
  <1>3. ASSUME NEW t \in Tasks, NEW o \in Asked, NEW s \in Swhid, Start(t, o, s)
        PROVE  Blocked(m, n, k)'
    <2>1. lock' = lock /\ pc'[t] # "commit" /\ Others(t)
      BY <1>1, <1>3 DEF Start, store, TypeOK, Others
    <2> QED
      BY <1>1, <2>1, BlockedBySet
  <1>4. ASSUME NEW t \in Tasks, Step(t)
        PROVE  Blocked(m, n, k)'
    BY <1>4, StepBlocked
  <1>5. ASSUME NEW a \in Mounts, Crash(a)
        PROVE  Blocked(m, n, k)'
    <2>1. a # m /\ a # n
      BY <1>5
    <2>2. lock'[m] = lock[m] /\ lock'[n] = lock[n]
      BY <1>1, <1>5, <2>1 DEF Crash, TypeOK
    <2>3. \A t \in Tasks : MountOf[t] = n => pc'[t] = pc[t] /\ kind'[t] = kind[t]
      BY <1>5, <2>1 DEF Crash
    <2> QED
      BY <2>2, <2>3 DEF Blocked
  <1> QED
    BY <1>2, <1>3, <1>4, <1>5 DEF Next

\* Once a refused commit and a read inside a refused write's transaction have
\* two processes block each other, no request to any process frees them.
THEOREM BlockedForGood == Spec => BlockedUntilCrash
  <1> DEFINE Stays == \A m, n \in Mounts, k \in OnDisk :
                 Blocked(m, n, k) /\ ~Crash(m) /\ ~Crash(n) => Blocked(m, n, k)'
  <1>1. IInv /\ [Next]_vars => [Stays]_vars
    BY OtherBlocked
  <1>2. BlockedUntilCrash <=> [][Stays]_vars
    BY PTL DEF BlockedUntilCrash
  <1> HIDE DEF Stays
  <1> QED
    BY <1>1, <1>2, Invariance, PTL DEF Spec

-----------------------------------------------------------------------------
(* Write locks of a mount that is alone.                                   *)

Alone == OnDisk = Kinds /\ \A m, n \in Mounts : m = n

\* Where NoIdleWriter holds, it goes on to hold for a step that leaves no write
\* lock on the metadata, or none that its own task does not answer for.
LEMMA IdleKept ==
  ASSUME TypeOK, Alone, NoIdleWriter, NEW t \in Tasks, Others(t), pc[t] # "commit",
         \/ /\ kind'[t] = "metadata" /\ pc'[t] = "commit"
         \/ \A m \in Mounts :
               lock'[m]["metadata"] \in Writing => lock[m]["metadata"] \in Writing
  PROVE  NoIdleWriter'
  <1> SUFFICES ASSUME NEW m \in Mounts, lock'[m]["metadata"] \in Writing
               PROVE  \E u \in Tasks : /\ MountOf[u] = m /\ kind'[u] = "metadata"
                                       /\ pc'[u] = "commit"
    BY DEF NoIdleWriter
  <1>1. CASE kind'[t] = "metadata" /\ pc'[t] = "commit"
    BY <1>1, MountAssumption DEF Alone
  <1>2. CASE lock[m]["metadata"] \in Writing
    <2>1. PICK u \in Tasks : /\ MountOf[u] = m /\ kind[u] = "metadata"
                             /\ pc[u] = "commit"
      BY <1>2 DEF NoIdleWriter, Alone
    <2>2. u \in Tasks \ {t}
      BY <2>1
    <2> QED
      BY <2>1, <2>2 DEF Others
  <1> QED
    BY <1>1, <1>2

LEMMA NotRefusedAlone ==
  ASSUME Alone, NEW m \in Mounts, NEW k \in Kinds
  PROVE  CanWrite(m, k) /\ CanCommit(m, k)
  <1>1. \A j \in Kinds : Db(j) = j
    BY DEF Alone, Db
  <1>2. \A states : ~Rival(m, k, states)
    BY <1>1 DEF Alone, Rival
  <1> QED
    BY <1>2 DEF CanWrite, CanCommit

LEMMA StepLeavesNoIdleWriter ==
  ASSUME IInv, Alone, NoIdleWriter, NEW t \in Tasks, Step(t)
  PROVE  NoIdleWriter'
  <1>1. /\ TypeOK /\ MountOf[t] \in Mounts /\ kind[t] \in Kinds
        /\ CanWrite(MountOf[t], kind[t]) /\ CanCommit(MountOf[t], kind[t])
    BY InPlace, NotRefusedAlone DEF IInv
  <1>2. Others(t)
    BY <1>1 DEF Step, Get, SelectRefused, Fetch, Insert, WriteRefused, Commit,
       AfterCommit, Reget, Raw, Delete, Reply, GoTo, Finish, request, Others, TypeOK
  <1>3. CASE Get(t) \/ Reget(t) \/ Raw(t)
    <2>1. lock' = lock \/ LockAfterRead(MountOf[t], kind[t])
      BY <1>3 DEF Get, Reget, Raw, SelectRefused, store
    <2>2. \A m \in Mounts :
             lock'[m]["metadata"] \in Writing => lock[m]["metadata"] \in Writing
      BY <1>1, <2>1 DEF LockAfterRead, SetLock, TypeOK, Writing, Kinds
    <2>3. pc[t] # "commit"
      BY <1>3 DEF Get, Reget, Raw
    <2> QED
      BY <1>1, <1>2, <2>2, <2>3, IdleKept
  <1>4. CASE Fetch(t) \/ Reply(t)
    <2>1. lock' = lock /\ pc[t] # "commit"
      BY <1>4 DEF Fetch, Reply, store
    <2> QED
      BY <1>1, <1>2, <2>1, IdleKept
  <1>5. CASE Insert(t) \/ Delete(t)
    <2>1. /\ LockAfterWrite(MountOf[t], kind[t]) /\ pc[t] # "commit" /\ kind' = kind
          /\ kind[t] = "metadata" => pc'[t] = "commit"
      BY <1>1, <1>5 DEF Insert, Delete, WriteRefused, GoTo, Finish, request, TypeOK
    <2>2. CASE kind[t] = "metadata"
      BY <1>1, <1>2, <2>1, <2>2, IdleKept
    <2>3. CASE kind[t] # "metadata"
      <3>1. \A m \in Mounts : lock'[m]["metadata"] = lock[m]["metadata"]
        BY <1>1, <2>1, <2>3 DEF LockAfterWrite, SetLock, TypeOK, Kinds
      <3> QED
        BY <1>1, <1>2, <2>1, <3>1, IdleKept
    <2> QED
      BY <2>2, <2>3
  <1>6. CASE Commit(t)
    <2>1. SetLock(MountOf[t], kind[t], "none")
      BY <1>1, <1>6 DEF Commit
    <2>2. CASE kind[t] = "metadata"
      <3>1. \A m \in Mounts : lock'[m]["metadata"] = "none"
        BY <1>1, <2>1, <2>2 DEF Alone, SetLock, TypeOK, Kinds
      <3> QED
        BY <3>1 DEF NoIdleWriter, Writing
    <2>3. CASE kind[t] # "metadata"
      <3>1. \A m \in Mounts : lock'[m]["metadata"] = lock[m]["metadata"]
        BY <1>1, <2>1, <2>3 DEF SetLock, TypeOK, Kinds
      <3>2. \A u \in Tasks : kind[u] = "metadata" =>
                kind'[u] = kind[u] /\ pc'[u] = pc[u]
        BY <1>2, <2>3 DEF Others
      <3> QED
        BY <3>1, <3>2 DEF NoIdleWriter, Alone
    <2> QED
      BY <2>2, <2>3
  <1> QED
    BY <1>3, <1>4, <1>5, <1>6 DEF Step

LEMMA NextLeavesNoIdleWriter ==
  ASSUME IInv, NoIdleWriter, [Next]_vars
  PROVE  NoIdleWriter'
  <1>1. CASE ~Alone
    BY <1>1 DEF Alone, NoIdleWriter
  <1>2. CASE Alone
    <2>1. TypeOK
      BY DEF IInv
    <2>2. CASE UNCHANGED vars
      BY <2>2 DEF vars, NoIdleWriter
    <2>3. ASSUME NEW t \in Tasks, NEW o \in Asked, NEW s \in Swhid, Start(t, o, s)
          PROVE  NoIdleWriter'
      <3>1. lock' = lock /\ pc[t] # "commit" /\ Others(t)
        BY <2>1, <2>3 DEF Start, store, TypeOK, Others
      <3> QED
        BY <1>2, <2>1, <3>1, IdleKept
    <2>4. ASSUME NEW t \in Tasks, Step(t)
          PROVE  NoIdleWriter'
      BY <1>2, <2>4, StepLeavesNoIdleWriter
    <2>5. ASSUME NEW a \in Mounts, Crash(a)
          PROVE  NoIdleWriter'
      <3>1. \A m \in Mounts : lock'[m]["metadata"] = "none"
        BY <1>2, <2>1, <2>5 DEF Alone, Crash, TypeOK, Kinds
      <3> QED
        BY <3>1 DEF NoIdleWriter, Writing
    <2> QED
      BY <2>2, <2>3, <2>4, <2>5 DEF Next
  <1> QED
    BY <1>1, <1>2

\* A mount that is alone with its database files never leaves a metadata
\* transaction open: whoever holds the write lock is about to commit.
THEOREM WritersCommit == Spec => []NoIdleWriter
  <1>1. Init => NoIdleWriter
    BY DEF Init, NoIdleWriter, Writing, Kinds
  <1>2. (IInv /\ NoIdleWriter /\ [Next]_vars) => NoIdleWriter'
    BY NextLeavesNoIdleWriter
  <1> QED
    BY <1>1, <1>2, Invariance, PTL DEF Spec

=============================================================================
