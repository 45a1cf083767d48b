-------------------------- MODULE LifecycleProofs --------------------------
(***************************************************************************)
(* What is left of a mount, for any limits and any artifacts.              *)
(***************************************************************************)

EXTENDS Lifecycle, TLAPS

\* A mount point is there only while main serves it, or has been killed; who is
\* inside a context, or leaves it, has seen one.
Seen ==
    /\ mounted => fuse \in {"serving", "closing", "killed"}
    /\ user = "new" => ~mounted
    /\ user \in {"inside", "leaving", "left"} =>
           fuse \in {"serving", "closing", "ended", "killed"}

\* Between fusermount3 and rmtree the mount point is there only if it was refused.
LeavingUnmounted == (user = "leaving" /\ mounted) => refused

Answered ==
    (graph = "compressed" /\ fuse \in {"prefetch", "init", "serving", "closing"}) =>
        answer = "serving"

\* What is counted is below its limit for as long as it is counted, from the
\* beginning of the process.
Counting ==
    /\ user = "new" => fuse = "off"
    /\ user \in {"new", "polling"} => polls < MaxPolls
    /\ fuse \in {"off", "caches", "check"} => attempts < MaxAttempts

IInv ==
    /\ TypeOK /\ Counting /\ Seen /\ LeavingUnmounted /\ LeftClean
    /\ Answered /\ ServedByHealthyGraph

USE DEF process, main, kernel, database, vars, Open, Answers

LEMMA InitIInv == Init => IInv
<1> SUFFICES ASSUME Init PROVE IInv
    OBVIOUS
<1>1. Flags BY DEF Init, Flags
<1>2. States BY LimitsAssumption DEF Init, States
<1>5. Counting BY LimitsAssumption DEF Init, Counting
<1>3. Seen /\ LeavingUnmounted /\ LeftClean BY DEF Init, Seen, LeavingUnmounted, LeftClean
<1>4. Answered /\ ServedByHealthyGraph BY DEF Init, Answered, ServedByHealthyGraph
<1> QED BY <1>1, <1>2, <1>3, <1>4, <1>5 DEF IInv, TypeOK

LEMMA NextFlags == (Flags /\ [Next]_vars) => Flags'
<1> SUFFICES ASSUME Flags, [Next]_vars PROVE Flags'
    OBVIOUS
<1> USE DEF Flags
<1>1. CASE Begin \/ Poll \/ Kill BY <1>1 DEF Begin, Poll, Kill
<1>2. CASE Unmount \/ Exit BY <1>2 DEF Unmount, Exit
<1>3. CASE RemoveTree BY <1>3 DEF RemoveTree, Drop
<1>4. CASE OpenCaches \/ Check BY <1>4 DEF OpenCaches, Check
<1>5. CASE Prefetch \/ Fetch BY <1>5 DEF Prefetch, Fetch, Store
<1>6. CASE Mount \/ Stop \/ Close BY <1>6 DEF Mount, Stop, Close
<1>7. CASE Purge \/ Interrupt BY <1>7 DEF Purge, Drop, Interrupt
<1>8. CASE Use \/ Umount \/ Clean BY <1>8 DEF Use, Umount, Clean
<1>9. CASE UNCHANGED vars BY <1>9
<1> QED BY <1>1, <1>2, <1>3, <1>4, <1>5, <1>6, <1>7, <1>8, <1>9
        DEF Next, Context, Main, Users

LEMMA NextStates == (States /\ Counting /\ [Next]_vars) => (States /\ Counting)'
<1> SUFFICES ASSUME States, Counting, [Next]_vars PROVE (States /\ Counting)'
    OBVIOUS
<1> USE LimitsAssumption DEF States, Counting
<1>1. CASE Begin BY <1>1 DEF Begin
<1>2. CASE Poll BY <1>2 DEF Poll
<1>3. CASE Unmount BY <1>3 DEF Unmount
<1>4. CASE RemoveTree BY <1>4 DEF RemoveTree, Drop
<1>5. CASE Exit
  <2>1. /\ how' \in {"command", "context"} /\ graph' \in {"web", "compressed"}
        /\ user' = "new" /\ fuse' = "off" /\ todo' = {} /\ answer' = "none"
        /\ rows' = rows /\ disk' = disk
    BY <1>5 DEF Exit
  <2>2. polls' = 0 /\ attempts' = 0 BY <1>5 DEF Exit
  <2>3. polls' \in 0 .. MaxPolls /\ attempts' \in 0 .. MaxAttempts
        /\ polls' < MaxPolls /\ attempts' < MaxAttempts
    BY <2>2
  <2> QED BY <2>1, <2>3
<1>6. CASE Kill BY <1>6 DEF Kill
<1>7. CASE OpenCaches BY <1>7 DEF OpenCaches
<1>8. CASE Check
  <2>1. CASE answer' \in {"unready", "unavailable"}
    <3>1. attempts' = attempts + 1 /\ attempts < MaxAttempts BY <1>8, <2>1 DEF Check
    <3>2. attempts' \in 0 .. MaxAttempts BY <3>1
    <3>3. (fuse' = "check") => (attempts' < MaxAttempts)
      <4>1. (fuse' = "check") => (attempts' # MaxAttempts) BY <1>8, <2>1 DEF Check
      <4> QED BY <4>1, <3>2
    <3>4. fuse' \in {"prefetch", "failed", "check"} BY <1>8 DEF Check
    <3> QED BY <1>8, <3>2, <3>3, <3>4 DEF Check
  <2>2. CASE answer' \notin {"unready", "unavailable"}
    BY <1>8, <2>2 DEF Check
  <2> QED BY <2>1, <2>2
<1>9. CASE Prefetch
  <2>1. rows' \subseteq Artifacts /\ disk' \subseteq Artifacts
    BY <1>9, ArtifactsAssumption DEF Prefetch, Store
  <2>2. todo' \subseteq Prefetched BY <1>9 DEF Prefetch
  <2>3. fuse = "prefetch" /\ fuse' \in {"init", fuse} /\ UNCHANGED <<process, attempts, answer>>
    BY <1>9 DEF Prefetch
  <2> QED BY <2>1, <2>2, <2>3
<1>10. CASE Mount BY <1>10 DEF Mount
<1>11. CASE Stop BY <1>11 DEF Stop
<1>12. CASE Close BY <1>12 DEF Close
<1>13. CASE Fetch BY <1>13 DEF Fetch, Store
<1>14. CASE Purge BY <1>14 DEF Purge, Drop
<1>15. CASE Interrupt BY <1>15 DEF Interrupt
<1>16. CASE Use BY <1>16 DEF Use
<1>17. CASE Umount BY <1>17 DEF Umount
<1>18. CASE Clean BY <1>18 DEF Clean
<1>19. CASE UNCHANGED vars BY <1>19
<1> QED BY <1>1, <1>2, <1>3, <1>4, <1>5, <1>6, <1>7, <1>8, <1>9, <1>10, <1>11,
           <1>12, <1>13, <1>14, <1>15, <1>16, <1>17, <1>18, <1>19
        DEF Next, Context, Main, Users

LEMMA NextIInv == (IInv /\ [Next]_vars) => IInv'
<1> SUFFICES ASSUME IInv, [Next]_vars PROVE IInv'
    OBVIOUS
<1>0. TypeOK' /\ Counting' BY NextFlags, NextStates DEF IInv, TypeOK
<1> USE <1>0 DEF IInv, TypeOK, Seen, LeavingUnmounted, LeftClean, Answered,
                 ServedByHealthyGraph, Counting
<1>1. CASE Begin BY <1>1 DEF Begin
<1>2. CASE Poll BY <1>2 DEF Poll
<1>3. CASE Unmount BY <1>3 DEF Unmount
<1>4. CASE RemoveTree BY <1>4 DEF RemoveTree
<1>5. CASE Exit BY <1>5 DEF Exit
<1>6. CASE Kill BY <1>6 DEF Kill
<1>7. CASE OpenCaches BY <1>7 DEF OpenCaches
<1>8. CASE Check BY <1>8 DEF Check
<1>9. CASE Prefetch BY <1>9 DEF Prefetch
<1>10. CASE Mount BY <1>10 DEF Mount
<1>11. CASE Stop BY <1>11 DEF Stop
<1>12. CASE Close BY <1>12 DEF Close
<1>13. CASE Fetch BY <1>13 DEF Fetch
<1>14. CASE Purge BY <1>14 DEF Purge
<1>15. CASE Interrupt BY <1>15 DEF Interrupt
<1>16. CASE Use BY <1>16 DEF Use
<1>17. CASE Umount BY <1>17 DEF Umount
<1>18. CASE Clean BY <1>18 DEF Clean
<1>19. CASE UNCHANGED vars BY <1>19
<1> QED BY <1>1, <1>2, <1>3, <1>4, <1>5, <1>6, <1>7, <1>8, <1>9, <1>10, <1>11,
           <1>12, <1>13, <1>14, <1>15, <1>16, <1>17, <1>18, <1>19
        DEF Next, Context, Main, Users

\* The inductive invariant holds in every reachable state: what main has been
\* through when a mount point is seen, and what __exit__ did about it.
THEOREM LifecycleInvariance == Spec => []IInv
BY InitIInv, NextIInv, PTL DEF Spec

\* Type correctness of the threads, the kernel's mount and the database file.
THEOREM LifecycleTypes == Spec => []TypeOK
<1>1. IInv => TypeOK BY DEF IInv
<1> QED BY <1>1, LifecycleInvariance, PTL

\* SwhFsTmpMount.__exit__ leaves neither mount point nor directory, unless
\* fusermount3 was refused.
THEOREM ContextLeavesNothing == Spec => []LeftClean
<1>1. IInv => LeftClean BY DEF IInv
<1> QED BY <1>1, LifecycleInvariance, PTL

\* _check_connectivity: nothing is mounted over a graph server that did not say
\* that it is serving, however many attempts it is given.
THEOREM GraphServesMount == Spec => []ServedByHealthyGraph
<1>1. IInv => ServedByHealthyGraph BY DEF IInv
<1> QED BY <1>1, LifecycleInvariance, PTL

\* The caches survive: only rm, clean and the rmtree of a refused context take
\* rows from the file.
THEOREM CachesSurvive == Spec => LossIsAsked
<1> DEFINE Asked == Purge \/ Clean \/ (RemoveTree /\ refused)
<1>1. (IInv /\ [Next]_vars) => [~(disk \subseteq disk') => Asked]_vars
  <2> SUFFICES ASSUME IInv, [Next]_vars, ~Asked, ~(disk \subseteq disk') PROVE FALSE
      OBVIOUS
  <2>1. CASE RemoveTree BY <2>1 DEF RemoveTree, IInv, LeavingUnmounted
  <2>2. CASE OpenCaches \/ Prefetch \/ Fetch
        BY <2>2 DEF OpenCaches, Prefetch, Fetch, Store
  <2>3. CASE Begin \/ Poll \/ Unmount \/ Exit \/ Kill
        BY <2>3 DEF Begin, Poll, Unmount, Exit, Kill
  <2>4. CASE Check \/ Mount \/ Stop \/ Close \/ Interrupt \/ Use \/ Umount
        BY <2>4 DEF Check, Mount, Stop, Close, Interrupt, Use, Umount
  <2>5. CASE UNCHANGED vars BY <2>5
  <2> QED BY <2>1, <2>2, <2>3, <2>4, <2>5 DEF Next, Context, Main, Users
<1> QED BY <1>1, LifecycleInvariance, PTL DEF Spec, LossIsAsked
=============================================================================
