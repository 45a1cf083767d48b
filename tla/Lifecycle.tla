----------------------------- MODULE Lifecycle -----------------------------
(***************************************************************************)
(* The life of a mount: main, which runs the file system, in a process of  *)
(* its own (the mount command) or in a thread of a process that waits for  *)
(* it (SwhFsTmpMount); the commands umount and clean, and the user inside. *)
(* One process runs at a time, and a new one begins when the mount point   *)
(* of the last is gone.  Time is not modelled: a step may take any.        *)
(***************************************************************************)

EXTENDS Integers

CONSTANTS
    Artifacts,    \* whose metadata can be cached
    Prefetched,   \* those given to the mount command
    MaxAttempts,  \* of the health check: 30
    MaxPolls      \* of __enter__ for the mount point: 30000

ASSUME ArtifactsAssumption == Prefetched \subseteq Artifacts
ASSUME LimitsAssumption ==
    /\ MaxAttempts \in Nat /\ MaxAttempts > 0
    /\ MaxPolls \in Nat /\ MaxPolls > 0

VARIABLES
    how,       \* "command" or "context" (SwhFsTmpMount)
    graph,     \* the graph back-end is configured: "web" or "compressed"
    user,      \* the main thread of a context, or the command
    polls,     \* how often __enter__ has looked
    fuse,      \* what main is doing
    attempts,  \* of the health check
    todo,      \* the artifacts left to prefetch
    mounted,   \* the kernel has the file system at the mount point
    busy,      \* a user has a file open in it
    dir,       \* the temporary directory is there
    rows,      \* the metadata in the database that main has open
    disk,      \* and in the file at its path
    linked,    \* which is the same file
    refused,   \* history: __exit__ could not unmount
    answer     \* history: the last answer of the health check

process == <<how, graph, user, polls>>
main == <<fuse, attempts, todo, answer>>
kernel == <<mounted, busy, dir>>
database == <<rows, disk, linked>>
vars == <<process, main, kernel, database, refused>>

Open == {"check", "prefetch", "init", "serving", "closing"}
Answers == {"serving", "unready", "unavailable", "error"}

Flags == mounted \in BOOLEAN /\ busy \in BOOLEAN /\ dir \in BOOLEAN
         /\ linked \in BOOLEAN /\ refused \in BOOLEAN

States ==
    /\ how \in {"command", "context"} /\ graph \in {"web", "compressed"}
    /\ user \in {"new", "polling", "inside", "leaving", "left", "aborted", "command"}
    /\ polls \in 0 .. MaxPolls /\ attempts \in 0 .. MaxAttempts
    /\ fuse \in {"off", "caches", "failed", "ended", "killed"} \cup Open
    /\ todo \subseteq Prefetched
    /\ rows \subseteq Artifacts /\ disk \subseteq Artifacts
    /\ answer \in Answers \cup {"none"}

TypeOK == Flags /\ States

Init ==
    /\ how \in {"command", "context"} /\ graph \in {"web", "compressed"}
    /\ user = "new" /\ polls = 0
    /\ fuse = "off" /\ attempts = 0 /\ todo = {} /\ answer = "none"
    /\ mounted = FALSE /\ busy = FALSE /\ dir = TRUE
    /\ rows = {} /\ disk = {} /\ linked = TRUE
    /\ refused = FALSE

-----------------------------------------------------------------------------
(* The process that mounts.                                                *)

\* swh fs mount, and SwhFsTmpMount.__enter__: a thread runs main.
Begin ==
    /\ user = "new"
    /\ user' = IF how = "command" THEN "command" ELSE "polling"
    /\ fuse' = "caches"
    /\ todo' = IF how = "command" THEN Prefetched ELSE {}
    /\ UNCHANGED <<how, graph, polls, attempts, answer, kernel, database, refused>>

\* Mutant: it looks for as long as it takes.
MutPoll ==
    /\ user = "polling"
    /\ user' = IF mounted THEN "inside" ELSE "polling"
    /\ UNCHANGED <<how, graph, polls, main, kernel, database, refused>>

\* __enter__ looks for archive/.  It does not look at the thread.
Poll ==
    /\ user = "polling"
    /\ IF mounted
         THEN user' = "inside" /\ UNCHANGED polls
         ELSE /\ polls' = polls + 1
              /\ user' = IF polls' = MaxPolls THEN "aborted" ELSE "polling"
    /\ UNCHANGED <<how, graph, main, kernel, database, refused>>

\* Mutant: rmtree comes before fusermount3.
MutUnmount ==
    /\ user = "inside"
    /\ user' = "leaving"
    /\ UNCHANGED <<how, graph, polls, main, kernel, database, refused>>

\* __exit__: fusermount3 -u refuses while a file is open, and its status is not
\* checked.
Unmount ==
    /\ user = "inside"
    /\ user' = "leaving"
    /\ refused' = (mounted /\ busy)
    /\ mounted' = (mounted /\ busy)
    /\ UNCHANGED <<how, graph, polls, main, busy, dir, database>>

Drop(purged) ==
    /\ rows' = rows \ purged
    /\ disk' = IF linked THEN disk \ purged ELSE disk
    /\ UNCHANGED linked

\* Mutant: nothing removes the directory.
MutRemoveTree ==
    /\ user = "leaving"
    /\ user' = "left"
    /\ UNCHANGED <<how, graph, polls, main, kernel, database, refused>>

\* rmtree(ignore_errors=True): in the mounted tree it removes what unlink can
\* remove, the links of cache/, and nothing else.
RemoveTree ==
    /\ user = "leaving"
    /\ user' = "left"
    /\ IF mounted
         THEN (\E purged \in SUBSET rows : Drop(purged)) /\ UNCHANGED dir
         ELSE dir' = FALSE /\ UNCHANGED database
    /\ UNCHANGED <<how, graph, polls, main, mounted, busy, refused>>

\* The process ends with its last thread, and another one begins.
Exit ==
    /\ fuse \in {"failed", "ended", "killed"} /\ ~mounted
    /\ user \in {"left", "aborted", "command"}
    /\ how' \in {"command", "context"} /\ graph' \in {"web", "compressed"}
    /\ user' = "new" /\ polls' = 0
    /\ fuse' = "off" /\ attempts' = 0 /\ todo' = {} /\ answer' = "none"
    /\ dir' = TRUE /\ busy' = FALSE
    /\ refused' = FALSE
    /\ UNCHANGED <<mounted, database>>

\* kill -9: the kernel keeps the mount point.
Kill ==
    /\ fuse \notin {"off", "killed"}
    /\ fuse' = "killed"
    /\ user' = IF how = "command" THEN "command" ELSE "aborted"
    /\ UNCHANGED <<how, graph, polls, attempts, todo, answer, kernel, database, refused>>

-----------------------------------------------------------------------------
(* main.                                                                   *)

\* FuseCache.__aenter__, which makes the file if there is none, and the factory
\* of the back-end.
OpenCaches ==
    /\ fuse = "caches"
    /\ \/ /\ rows' = disk
          /\ linked' = TRUE
          /\ fuse' = IF graph = "compressed" THEN "check" ELSE "prefetch"
       \/ fuse' = "failed" /\ UNCHANGED <<rows, linked>>
    /\ UNCHANGED <<process, attempts, todo, answer, kernel, disk, refused>>

\* Mutant: after the last attempt the check returns.
MutCheck ==
    /\ fuse = "check"
    /\ answer' \in Answers
    /\ attempts' = IF answer' \in {"unready", "unavailable"} THEN attempts + 1 ELSE attempts
    /\ fuse' = IF answer' = "serving" \/ attempts' = MaxAttempts THEN "prefetch"
               ELSE IF answer' = "error" THEN "failed" ELSE "check"
    /\ UNCHANGED <<process, todo, kernel, database, refused>>

\* Mutant: one attempt too many.
MutAttempts ==
    /\ fuse = "check"
    /\ answer' \in Answers
    /\ attempts' = IF answer' \in {"unready", "unavailable"} THEN attempts + 1 ELSE attempts
    /\ fuse' = IF answer' = "serving" THEN "prefetch"
               ELSE IF answer' = "error" \/ attempts = MaxAttempts THEN "failed" ELSE "check"
    /\ UNCHANGED <<process, todo, kernel, database, refused>>

\* _check_connectivity: any error but UNAVAILABLE is raised, at once.
Check ==
    /\ fuse = "check"
    /\ answer' \in Answers
    /\ attempts' = IF answer' \in {"unready", "unavailable"} THEN attempts + 1 ELSE attempts
    /\ fuse' = IF answer' = "serving" THEN "prefetch"
               ELSE IF answer' = "error" \/ attempts' = MaxAttempts THEN "failed" ELSE "check"
    /\ UNCHANGED <<process, todo, kernel, database, refused>>

Store(s) ==
    /\ rows' = rows \cup {s}
    /\ disk' = IF linked THEN disk \cup {s} ELSE disk
    /\ UNCHANGED linked

\* An artifact that cannot be prefetched is logged and passed over.
Prefetch ==
    /\ fuse = "prefetch"
    /\ IF todo = {}
         THEN fuse' = "init" /\ UNCHANGED <<todo, database>>
         ELSE /\ \E s \in todo : todo' = todo \ {s} /\ (Store(s) \/ UNCHANGED database)
              /\ UNCHANGED fuse
    /\ UNCHANGED <<process, attempts, answer, kernel, refused>>

\* pyfuse3.init and main.  A failure is logged.
Mount ==
    /\ fuse = "init"
    /\ \/ fuse' = "serving" /\ mounted' = TRUE
       \/ fuse' = "closing" /\ UNCHANGED mounted
    /\ UNCHANGED <<process, attempts, todo, answer, busy, dir, database, refused>>

\* A request fetches an artifact.
Fetch ==
    /\ fuse = "serving" /\ mounted
    /\ \E s \in Artifacts \ rows : Store(s)
    /\ UNCHANGED <<process, main, kernel, refused>>

\* rm cache/xx/SWHID
Purge ==
    /\ fuse = "serving" /\ mounted
    /\ \E s \in rows : Drop({s})
    /\ UNCHANGED <<process, main, kernel, refused>>

\* pyfuse3.main returns once the file system is unmounted.
Stop ==
    /\ fuse = "serving" /\ ~mounted
    /\ fuse' = "closing"
    /\ UNCHANGED <<process, attempts, todo, answer, kernel, database, refused>>

\* pyfuse3.main raises, which is logged, or Control-C ends the command in the
\* foreground, served or not.
Interrupt ==
    /\ \/ fuse = "serving" /\ fuse' = "closing"
       \/ fuse \in {"check", "prefetch"} /\ how = "command" /\ fuse' = "failed"
    /\ UNCHANGED <<process, attempts, todo, answer, kernel, database, refused>>

\* pyfuse3.close(unmount=True), which detaches whoever is inside, and
\* FuseCache.__aexit__
Close ==
    /\ fuse = "closing"
    /\ fuse' = "ended"
    /\ mounted' = FALSE
    /\ busy' = FALSE
    /\ UNCHANGED <<process, attempts, todo, answer, dir, database, refused>>

-----------------------------------------------------------------------------
(* Users and commands.                                                     *)

\* A user opens a file in the mounted tree, or closes it.
Use ==
    /\ mounted /\ (fuse = "serving" \/ busy)
    /\ busy' = ~busy
    /\ UNCHANGED <<process, main, mounted, dir, database, refused>>

\* swh fs umount, which reports a refusal
Umount ==
    /\ mounted /\ ~busy
    /\ mounted' = FALSE
    /\ UNCHANGED <<process, main, busy, dir, database, refused>>

\* swh fs clean: a process keeps the file that it has open, under no name.
Clean ==
    /\ disk' = {}
    /\ linked' = (linked /\ fuse \notin Open)
    /\ UNCHANGED <<process, main, kernel, rows, refused>>

Context == Begin \/ Poll \/ Unmount \/ RemoveTree \/ Exit \/ Kill
Main == OpenCaches \/ Check \/ Prefetch \/ Mount \/ Stop \/ Close
Users == Fetch \/ Purge \/ Interrupt \/ Use \/ Umount \/ Clean

Next == Context \/ Main \/ Users

\* Threads run, and the kernel answers; nothing makes a user leave, close a file
\* or run a command.
Fairness == WF_vars(Main) /\ WF_vars(Poll)

Spec == Init /\ [][Next]_vars /\ Fairness

-----------------------------------------------------------------------------
(* Properties.                                                             *)

\* A context that is left has no mount point and no directory behind it, unless
\* somebody had a file open in it when fusermount3 ran: "the mountpoint, that
\* will be deleted when exiting the context".
LeftClean == user = "left" => refused \/ (~mounted /\ ~dir)

\* The rows of the file outlive the processes that stored them, however these
\* end: they leave it by rm or clean, or by the rmtree of a context which
\* fusermount3 refused to unmount, and which goes through the links of cache/.
\* What a process stores after a clean under its mount never is in the file.
LossIsAsked ==
    [][~(disk \subseteq disk') => Purge \/ Clean \/ (RemoveTree /\ refused)]_vars

\* With the compressed graph no mount point is shown before the server has said
\* that it is serving: an attempt that fails, or the last of them, is not taken
\* for an answer.
ServedByHealthyGraph == (mounted /\ graph = "compressed") => answer = "serving"

\* Entering a context ends, whatever becomes of the thread that mounts: inside,
\* or with an error.
EnterEnds == user = "polling" ~> user # "polling"

\* The thread of a context that was left ends, and with it the process, unless
\* fusermount3 was refused.
ThreadEnds == (user = "left" /\ ~refused) ~> fuse \notin Open
=============================================================================
