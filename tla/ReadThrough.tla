---------------------------- MODULE ReadThrough ----------------------------
(***************************************************************************)
(* The read-through caches of SwhFS: FUSE requests handled as tasks of one *)
(* asyncio loop per mount, which look an artifact up in a SQLite table,    *)
(* fetch it from the back-end on a miss, insert the row, commit, and read  *)
(* it again; and the requests that purge an artifact (rm cache/xx/SWHID).  *)
(*                                                                         *)
(* Every await is a point where the other tasks of the mount, and the      *)
(* other mounts that share the database files, take their steps.  One      *)
(* action is one await: a select, a back-end call, an execute or a commit. *)
(*                                                                         *)
(* All tasks of a mount share ONE connection per table, so they share its  *)
(* transaction: Python's sqlite3 opens a transaction before each write and *)
(* only commit() ends it, whichever task calls it.  The lock states are    *)
(* those of SQLite's rollback journal:                                     *)
(*   none      no transaction                                              *)
(*   begun     BEGIN was executed, then the write was refused: no lock yet *)
(*   shared    a read inside such a transaction: held until its end        *)
(*   reserved  uncommitted changes, visible to this connection only        *)
(*   pending   a commit was refused because of a reader: as reserved, and  *)
(*             no connection may start to read                             *)
(* A lock that is taken and given back inside one select is not modelled.  *)
(***************************************************************************)

CONSTANTS
    Swhid,      \* the artifacts the requests name
    Contents,   \* those of type cnt, which have a blob
    Archived,   \* those the back-end has; it raises for the others
    Untypable,  \* those whose metadata typify_json raises on
    NoSwhid,    \* what an idle task works on
    Mounts,     \* the SwhFS processes
    Tasks,      \* the request slots of all the event loops
    MountOf,    \* the mount a task belongs to
    OnDisk,     \* the tables in a database file; the others are in memory
    Bypass,     \* blob.bypass: NoopBlobCache in place of BlobCache
    Asked       \* the kinds of request made (all of Ops, or fewer as a bound)

Kinds == {"metadata", "blob"}

ASSUME ObjectAssumption ==
    /\ Contents \subseteq Swhid
    /\ Archived \subseteq Swhid
    /\ Untypable \subseteq Swhid
    /\ NoSwhid \notin Swhid

ASSUME MountAssumption ==
    /\ MountOf \in [Tasks -> Mounts]
    /\ OnDisk \subseteq Kinds
    /\ Bypass \in BOOLEAN
    /\ Asked \subseteq {"metadata", "json", "blob", "unlink"}

\* An in-memory database is private to its process: one mount is all of it.
ASSUME MemoryAssumption ==
    OnDisk # Kinds => \A m, n \in Mounts : m = n

VARIABLES
    disk,    \* the committed rows of each table
    draft,   \* the rows of each table as its open write transaction has them
    lock,    \* the state of each mount's connection to each table
    pc,      \* the next step of each task
    op,      \* the request it serves
    swhid,   \* the artifact the request names
    kind,    \* the table it works on
    answer,  \* how the request ended
    raced    \* history: another request disturbed the row this one is about

request == <<op, swhid>>
store == <<disk, draft, lock>>
vars == <<disk, draft, lock, pc, op, swhid, kind, answer, raced>>

Locks == {"none", "begun", "shared", "reserved", "pending"}
Writing == {"reserved", "pending"}
Labels == {"idle", "get", "fetch", "insert", "commit", "reget", "raw",
           "delete", "done"}
Ops == {"metadata", "json", "blob", "unlink"}
Answers == {"data", "null", "removed", "unavailable", "locked", "duplicate"}

TypeOK ==
    /\ disk \in [Kinds -> SUBSET Swhid]
    /\ draft \in [Kinds -> SUBSET Swhid]
    /\ lock \in [Mounts -> [Kinds -> Locks]]
    /\ pc \in [Tasks -> Labels]
    /\ op \in [Tasks -> Ops \cup {"none"}]
    /\ swhid \in [Tasks -> Swhid \cup {NoSwhid}]
    /\ kind \in [Tasks -> Kinds]
    /\ answer \in [Tasks -> Answers \cup {"none"}]
    /\ raced \in [Tasks -> BOOLEAN]

-----------------------------------------------------------------------------
(* SQLite, as the program uses it.                                         *)

\* In memory every table is in the one shared-cache database.
Db(k) == IF k \in OnDisk THEN k ELSE "memory"

View(m, k) == IF lock[m][k] \in Writing THEN draft[k] ELSE disk[k]

Rival(m, k, states) ==
    \E n \in Mounts, j \in Kinds :
        /\ <<n, j>> # <<m, k>>
        /\ Db(j) = Db(k)
        /\ lock[n][j] \in states

CanRead(m, k) == lock[m][k] \in {"none", "begun"} => ~Rival(m, k, {"pending"})

CanWrite(m, k) == ~Rival(m, k, Writing)

CanCommit(m, k) ==
    k \in OnDisk /\ lock[m][k] \in Writing => ~Rival(m, k, {"shared"})

SetLock(m, k, state) == lock' = [lock EXCEPT ![m][k] = state]

\* A read inside an open transaction keeps its lock until that transaction ends.
LockAfterRead(m, k) ==
    SetLock(m, k, IF lock[m][k] = "begun" THEN "shared" ELSE lock[m][k])

LockAfterWrite(m, k) ==
    SetLock(m, k, IF lock[m][k] = "pending" THEN "pending" ELSE "reserved")

LockAfterRefusal(m, k) ==
    SetLock(m, k, IF lock[m][k] = "none" THEN "begun" ELSE lock[m][k])

-----------------------------------------------------------------------------
(* Tasks.                                                                  *)

GoTo(t, label) ==
    /\ pc' = [pc EXCEPT ![t] = label]
    /\ UNCHANGED answer

Finish(t, a) ==
    /\ pc' = [pc EXCEPT ![t] = "done"]
    /\ answer' = [answer EXCEPT ![t] = a]

Reading(t) == op[t] \in {"metadata", "json"}

\* The rows of table k that leave or enter it under the requests of others.
Disturbs(t, k, lost, gained) ==
    raced' = [u \in Tasks |->
        \/ raced[u]
        \/ /\ u # t
           /\ \/ Reading(u) /\ k = "metadata" /\ swhid[u] \in lost
              \/ op[u] = "blob" /\ k = "blob" /\ swhid[u] \in gained
              \/ op[u] = "unlink" /\ swhid[u] \in gained]

Init ==
    /\ disk = [k \in Kinds |-> {}]
    /\ draft = [k \in Kinds |-> {}]
    /\ lock = [m \in Mounts |-> [k \in Kinds |-> "none"]]
    /\ pc = [t \in Tasks |-> "idle"]
    /\ op = [t \in Tasks |-> "none"]
    /\ swhid = [t \in Tasks |-> NoSwhid]
    /\ kind = [t \in Tasks |-> "metadata"]
    /\ answer = [t \in Tasks |-> "none"]
    /\ raced = [t \in Tasks |-> FALSE]

\* Mutant: the request's name is taken for the table's.
MutStart(t, o, s) ==
    /\ pc[t] = "idle"
    /\ pc' = [pc EXCEPT ![t] = IF o = "unlink" THEN "delete" ELSE "get"]
    /\ op' = [op EXCEPT ![t] = o]
    /\ swhid' = [swhid EXCEPT ![t] = s]
    /\ kind' = [kind EXCEPT ![t] = o]
    /\ UNCHANGED <<store, answer, raced>>

\* A request arrives.  The blob of an artifact that is no content is refused
\* before any await; a name to unlink was found by a lookup in cache/xx.
Start(t, o, s) ==
    /\ pc[t] = "idle"
    /\ o = "blob" => s \in Contents
    /\ o = "unlink" => CanRead(MountOf[t], "metadata")
                       /\ s \in View(MountOf[t], "metadata")
    /\ pc' = [pc EXCEPT ![t] = IF o = "unlink" THEN "delete" ELSE "get"]
    /\ op' = [op EXCEPT ![t] = o]
    /\ swhid' = [swhid EXCEPT ![t] = s]
    /\ kind' = [kind EXCEPT ![t] = IF o = "blob" THEN "blob" ELSE "metadata"]
    /\ UNCHANGED <<store, answer, raced>>

\* Mutant: "if cache" for "if cache is not None": an empty blob is a miss.
MutReadable(t) ==
    /\ kind[t] = "metadata"
    /\ swhid[t] \in View(MountOf[t], kind[t])

\* A metadata row that typify_json raises on is logged and read as a miss.
Readable(t) ==
    /\ swhid[t] \in View(MountOf[t], kind[t])
    /\ kind[t] = "metadata" => swhid[t] \notin Untypable

SelectRefused(t) ==
    /\ ~CanRead(MountOf[t], kind[t])
    /\ Finish(t, "locked")
    /\ UNCHANGED <<store, request, kind, raced>>

\* The first look in the cache.
Get(t) ==
    /\ pc[t] = "get"
    /\ \/ SelectRefused(t)
       \/ /\ CanRead(MountOf[t], kind[t])
          /\ LockAfterRead(MountOf[t], kind[t])
          /\ \/ /\ ~Readable(t)
                /\ GoTo(t, "fetch")
             \/ /\ Readable(t)
                /\ op[t] = "json"
                /\ GoTo(t, "raw")
             \/ /\ Readable(t)
                /\ op[t] # "json"
                /\ Finish(t, "data")
          /\ UNCHANGED <<disk, draft, request, kind, raced>>

\* Mutant: cache.metadata.set is called and not awaited.
MutFetch(t) ==
    /\ pc[t] = "fetch"
    /\ swhid[t] \in Archived
    /\ GoTo(t, IF kind[t] = "blob" THEN "insert" ELSE "reget")
    /\ UNCHANGED <<store, request, kind, raced>>

\* The back-end raises for what it does not have, and whenever it is down.
Fetch(t) ==
    /\ pc[t] = "fetch"
    /\ \/ Finish(t, "unavailable")
       \/ /\ swhid[t] \in Archived
          /\ ~(kind[t] = "blob" /\ Bypass)
          /\ GoTo(t, "insert")
       \/ /\ swhid[t] \in Archived
          /\ kind[t] = "blob" /\ Bypass
          /\ Finish(t, "data")
    /\ UNCHANGED <<store, request, kind, raced>>

\* Mutant: a refused write that finds a transaction open rolls it back.
MutWriteRefused(t) ==
    /\ ~CanWrite(MountOf[t], kind[t])
    /\ SetLock(MountOf[t], kind[t],
               IF lock[MountOf[t]][kind[t]] = "none" THEN "begun" ELSE "none")
    /\ Finish(t, "locked")
    /\ UNCHANGED <<disk, draft, request, kind, raced>>

\* Mutant: a write that is not granted waits, with no timeout.
MutWaitForLock(t) ==
    /\ FALSE
    /\ UNCHANGED vars

WriteRefused(t) ==
    /\ ~CanWrite(MountOf[t], kind[t])
    /\ LockAfterRefusal(MountOf[t], kind[t])
    /\ Finish(t, "locked")
    /\ UNCHANGED <<disk, draft, request, kind, raced>>

\* Mutant: a plain insert in both tables.
MutInsert(t) ==
    LET m == MountOf[t]
        k == kind[t]
    IN  /\ pc[t] = "insert"
        /\ CanWrite(m, k)
        /\ LockAfterWrite(m, k)
        /\ UNCHANGED <<disk, request, kind>>
        /\ \/ /\ swhid[t] \in View(m, k)
              /\ Finish(t, "duplicate")
              /\ UNCHANGED <<draft, raced>>
           \/ /\ swhid[t] \notin View(m, k)
              /\ draft' = [draft EXCEPT ![k] = @ \cup {swhid[t]}]
              /\ Disturbs(t, k, {}, {swhid[t]})
              /\ GoTo(t, "commit")

\* "insert or ignore" into metadata_cache, a plain "insert" into blob_cache:
\* the second raises on a row that is there, and leaves the transaction open.
Insert(t) ==
    LET m == MountOf[t]
        k == kind[t]
    IN  /\ pc[t] = "insert"
        /\ \/ WriteRefused(t)
           \/ /\ CanWrite(m, k)
              /\ LockAfterWrite(m, k)
              /\ \/ /\ k = "blob"
                    /\ swhid[t] \in View(m, k)
                    /\ Finish(t, "duplicate")
                    /\ UNCHANGED <<draft, raced>>
                 \/ /\ k = "blob" => swhid[t] \notin View(m, k)
                    /\ draft' = [draft EXCEPT ![k] = @ \cup {swhid[t]}]
                    /\ Disturbs(t, k, {}, {swhid[t]} \ View(m, k))
                    /\ GoTo(t, "commit")
              /\ UNCHANGED <<disk, request, kind>>

\* Mutant: unlink forgets the blob.
MutAfterCommit(t) ==
    /\ UNCHANGED kind
    /\ \/ Reading(t) /\ GoTo(t, "reget")
       \/ op[t] = "blob" /\ Finish(t, "data")
       \/ op[t] = "unlink" /\ Finish(t, "removed")

\* What follows a commit: the metadata is read again, a blob is returned as it
\* was fetched, an unlink goes on to the blob table.
AfterCommit(t) ==
    \/ /\ Reading(t)
       /\ GoTo(t, "reget")
       /\ UNCHANGED kind
    \/ /\ op[t] = "blob"
       /\ Finish(t, "data")
       /\ UNCHANGED kind
    \/ /\ op[t] = "unlink"
       /\ kind[t] = "metadata"
       /\ ~Bypass
       /\ GoTo(t, "delete")
       /\ kind' = [kind EXCEPT ![t] = "blob"]
    \/ /\ op[t] = "unlink"
       /\ kind[t] = "blob" \/ Bypass
       /\ Finish(t, "removed")
       /\ UNCHANGED kind

\* commit() ends whatever transaction the connection has, this task's or not.
Commit(t) ==
    LET m == MountOf[t]
        k == kind[t]
    IN  /\ pc[t] = "commit"
        /\ UNCHANGED <<draft, request>>
        /\ \/ /\ CanCommit(m, k)
              /\ disk' = [disk EXCEPT ![k] = View(m, k)]
              /\ SetLock(m, k, "none")
              /\ Disturbs(t, k, disk[k] \ View(m, k), View(m, k) \ disk[k])
              /\ AfterCommit(t)
           \/ /\ ~CanCommit(m, k)
              /\ SetLock(m, k, "pending")
              /\ Finish(t, "locked")
              /\ UNCHANGED <<disk, kind, raced>>

\* get_metadata reads its row again, to return it typed.
Reget(t) ==
    /\ pc[t] = "reget"
    /\ \/ SelectRefused(t)
       \/ /\ CanRead(MountOf[t], kind[t])
          /\ LockAfterRead(MountOf[t], kind[t])
          /\ \/ /\ op[t] = "json"
                /\ GoTo(t, "raw")
             \/ /\ op[t] # "json"
                /\ Finish(t, IF Readable(t) THEN "data" ELSE "null")
          /\ UNCHANGED <<disk, draft, request, kind, raced>>

\* MetaEntry.get_content dumps the row whatever get_metadata returned.
Raw(t) ==
    /\ pc[t] = "raw"
    /\ \/ SelectRefused(t)
       \/ /\ CanRead(MountOf[t], kind[t])
          /\ LockAfterRead(MountOf[t], kind[t])
          /\ Finish(t, IF swhid[t] \in View(MountOf[t], kind[t])
                       THEN "data" ELSE "null")
          /\ UNCHANGED <<disk, draft, request, kind, raced>>

\* Mutant: remove() does not commit.
MutDelete(t) ==
    LET m == MountOf[t]
        k == kind[t]
    IN  /\ pc[t] = "delete"
        /\ CanWrite(m, k)
        /\ LockAfterWrite(m, k)
        /\ draft' = [draft EXCEPT ![k] = @ \ {swhid[t]}]
        /\ Disturbs(t, k, {swhid[t]} \cap View(m, k), {})
        /\ Finish(t, "removed")
        /\ UNCHANGED <<disk, request, kind>>

\* The delete of an unlink; a row that is not there is no error.
Delete(t) ==
    LET m == MountOf[t]
        k == kind[t]
    IN  /\ pc[t] = "delete"
        /\ \/ WriteRefused(t)
           \/ /\ CanWrite(m, k)
              /\ LockAfterWrite(m, k)
              /\ draft' = [draft EXCEPT ![k] = @ \ {swhid[t]}]
              /\ Disturbs(t, k, {swhid[t]} \cap View(m, k), {})
              /\ GoTo(t, "commit")
              /\ UNCHANGED <<disk, request, kind>>

Reply(t) ==
    /\ pc[t] = "done"
    /\ pc' = [pc EXCEPT ![t] = "idle"]
    /\ op' = [op EXCEPT ![t] = "none"]
    /\ swhid' = [swhid EXCEPT ![t] = NoSwhid]
    /\ kind' = [kind EXCEPT ![t] = "metadata"]
    /\ answer' = [answer EXCEPT ![t] = "none"]
    /\ raced' = [raced EXCEPT ![t] = FALSE]
    /\ UNCHANGED store

\* The process ends, in order or not, and is started again: its connections
\* are gone, what they had not committed is rolled back, and a database in
\* memory goes with them.
Kept(k) == IF k \in OnDisk THEN disk[k] ELSE {}

Crash(m) ==
    LET mine(t) == MountOf[t] = m
    IN  /\ disk' = [k \in Kinds |-> Kept(k)]
        /\ draft' = [k \in Kinds |->
                        IF k \notin OnDisk \/ lock[m][k] \in Writing
                        THEN Kept(k) ELSE draft[k]]
        /\ lock' = [lock EXCEPT ![m] = [k \in Kinds |-> "none"]]
        /\ pc' = [t \in Tasks |-> IF mine(t) THEN "idle" ELSE pc[t]]
        /\ op' = [t \in Tasks |-> IF mine(t) THEN "none" ELSE op[t]]
        /\ swhid' = [t \in Tasks |-> IF mine(t) THEN NoSwhid ELSE swhid[t]]
        /\ kind' = [t \in Tasks |-> IF mine(t) THEN "metadata" ELSE kind[t]]
        /\ answer' = [t \in Tasks |-> IF mine(t) THEN "none" ELSE answer[t]]
        /\ raced' = [t \in Tasks |-> raced[t] /\ ~mine(t)]

Step(t) ==
    \/ Get(t) \/ Fetch(t) \/ Insert(t) \/ Commit(t) \/ Reget(t) \/ Raw(t)
    \/ Delete(t) \/ Reply(t)

Next ==
    \/ \E t \in Tasks, o \in Asked, s \in Swhid : Start(t, o, s)
    \/ \E t \in Tasks : Step(t)
    \/ \E m \in Mounts : Crash(m)

Spec == Init /\ [][Next]_vars

\* The event loop runs every ready task; nothing makes a user ask again.
FairSpec == Spec /\ \A t \in Tasks : WF_vars(Step(t))

-----------------------------------------------------------------------------
(* Properties.                                                             *)

\* A request answers with nothing, a None or a null document, only if another
\* request purged the row between its steps, or if typify_json cannot read it:
\* get_metadata's insert, commit and second select leave no other way.
NullOnlyAfterPurge ==
    \A t \in Tasks :
        answer[t] = "null" =>
            \/ raced[t]
            \/ op[t] = "metadata" /\ swhid[t] \in Untypable

\* The insert of a blob meets a row only if another request stored that blob
\* since this one found it missing.
DuplicateOnlyAfterRace ==
    \A t \in Tasks : answer[t] = "duplicate" => raced[t]

\* Once an unlink has succeeded, no committed row of its artifact is left in
\* either table, unless a request that was given its back-end answer stored
\* it again meanwhile: both deletes were committed, and no rollback, crash or
\* other connection's transaction brings a row back.
PurgeSticks ==
    \A t \in Tasks :
        answer[t] = "removed" /\ ~raced[t] =>
            \A k \in Kinds : swhid[t] \notin disk[k]

\* A mount that has its databases to itself leaves no metadata transaction
\* open between requests: a write lock is always some task's, on its way from
\* the execute to the commit.  (For blobs it is not so, see IdleLeavesNoLock.)
NoIdleWriter ==
    OnDisk = Kinds /\ (\A m, n \in Mounts : m = n) =>
        \A m \in Mounts :
            lock[m]["metadata"] \in Writing =>
                \E t \in Tasks :
                    /\ MountOf[t] = m
                    /\ kind[t] = "metadata"
                    /\ pc[t] = "commit"

\* Two processes whose connections block each other, one by a refused commit
\* and one by a read inside a transaction whose write was refused, stay so
\* whatever requests are made to them, once the second has no commit still to
\* come: only the end of a process unblocks them.
Blocked(m, n, k) ==
    /\ lock[m][k] = "pending"
    /\ lock[n][k] = "shared"
    /\ \A t \in Tasks :
          ~(MountOf[t] = n /\ kind[t] = k /\ pc[t] = "commit")

BlockedUntilCrash ==
    [][\A m, n \in Mounts, k \in OnDisk :
           Blocked(m, n, k) /\ ~Crash(m) /\ ~Crash(n) => Blocked(m, n, k)']_vars

\* Every request is answered: a lock that is not granted is refused in the end,
\* so no request waits for another one.
EveryRequestAnswered ==
    \A t \in Tasks : pc[t] # "idle" ~> pc[t] \in {"done", "idle"}

-----------------------------------------------------------------------------
(* The inductive invariant behind the safety properties.                   *)

\* What a task is about, at each of its steps.
TaskInv(t) ==
    /\ pc[t] = "idle" <=> op[t] = "none"
    /\ pc[t] # "idle" => swhid[t] \in Swhid
    /\ pc[t] # "done" => answer[t] = "none"
    /\ Reading(t) => kind[t] = "metadata"
    /\ op[t] = "blob" => kind[t] = "blob"
    /\ pc[t] \in {"get", "fetch", "insert"} => Reading(t) \/ op[t] = "blob"
    /\ pc[t] = "reget" => Reading(t)
    /\ pc[t] = "raw" => op[t] = "json"
    /\ pc[t] = "delete" => op[t] = "unlink"
    /\ answer[t] = "removed" => op[t] = "unlink"
    /\ answer[t] = "duplicate" => op[t] = "blob"
    /\ answer[t] = "null" => Reading(t)
    /\ Bypass /\ kind[t] = "blob" => op[t] = "blob" /\ pc[t] \in {"get", "fetch", "done"}

\* A table has one writer at most, and none leaves the draft as committed.
StoreInv ==
    \A k \in Kinds :
        /\ \A m, n \in Mounts :
               lock[m][k] \in Writing /\ lock[n][k] \in Writing => m = n
        /\ (\A m \in Mounts : lock[m][k] \notin Writing) => draft[k] = disk[k]
        /\ Bypass /\ k = "blob" => disk[k] = {} /\ draft[k] = {}

\* What a request has made of its row holds until another request disturbs it.
RowInv(t) ==
    raced[t] \/
      /\ Reading(t) /\ pc[t] \in {"commit", "reget", "raw"} =>
             swhid[t] \in View(MountOf[t], "metadata")
      /\ op[t] = "blob" /\ pc[t] \in {"fetch", "insert"} =>
             swhid[t] \notin View(MountOf[t], "blob")
      /\ op[t] = "unlink" /\ pc[t] = "commit" =>
             \A k \in Kinds : kind[t] = k => swhid[t] \notin View(MountOf[t], k)
      /\ op[t] = "unlink" /\ kind[t] = "blob" => swhid[t] \notin disk["metadata"]
      /\ answer[t] = "removed" => \A k \in Kinds : swhid[t] \notin disk[k]
      /\ answer[t] = "duplicate" => FALSE
      /\ answer[t] = "null" => op[t] = "metadata" /\ swhid[t] \in Untypable

IInv ==
    /\ TypeOK
    /\ \A t \in Tasks : TaskInv(t)
    /\ StoreInv
    /\ \A t \in Tasks : RowInv(t)

-----------------------------------------------------------------------------
(* What a comment of the code says, and the code does not do: it is        *)
(* checked alone, by a run that ends in a counterexample.                  *)

\* The caches are shared by concurrent SwhFS processes, so a process that has
\* no request under way keeps no write lock.  BlobCache.set has no "or
\* ignore": of two first reads of one blob at a time the second raises, and
\* the transaction Python began for it stays open, with nobody to end it.
IdleLeavesNoLock ==
    \A m \in Mounts :
        (\A t \in Tasks : MountOf[t] = m => pc[t] \in {"idle", "done"}) =>
            \A k \in Kinds : lock[m][k] \notin Writing

=============================================================================
