---------------------------- MODULE ReadOnlyTree ----------------------------
(***************************************************************************)
(* What clients may expect of the mounted tree: a file system that nobody  *)
(* writes.  There are no inodes, no computations and no cache, and no      *)
(* client notices another one.  A directory lists the same children, in    *)
(* the same order, each time; a directory in Live some of its children,    *)
(* and a directory in OnTheFly none, although a lookup finds them.         *)
(*                                                                         *)
(* A request may fail until it is answered.                                *)
(***************************************************************************)

EXTENDS Integers, SequencesExt

CONSTANTS Clients, Root, Children, OnTheFly, Live, Block, NoNode

VARIABLES
    reached,   \* what was named to the kernel
    status,    \* what each client's request has come to
    at,        \* the directory it is about
    sought,    \* the name it looks up, NoNode in a stream
    told       \* the names its stream has returned

vars == <<reached, status, at, sought, told>>

NamesIn(d) == ToSet(Children[d])
Nodes == {Root} \cup UNION {NamesIn(d) : d \in DOMAIN Children}

\* The whole listing of a directory that is not in Live.
Shown(d) == IF d \in OnTheFly THEN <<>> ELSE Children[d]

Init ==
    /\ reached = {Root}
    /\ status = [c \in Clients |-> "idle"]
    /\ at = [c \in Clients |-> Root]
    /\ sought = [c \in Clients |-> NoNode]
    /\ told = [c \in Clients |-> <<>>]

-----------------------------------------------------------------------------

Open(c, d) ==
    /\ status' = [status EXCEPT ![c] = "reading"]
    /\ at' = [at EXCEPT ![c] = d]
    /\ UNCHANGED <<reached, sought, told>>

\* A block of a stream: names that go on where those before them ended.
Receive(c) ==
    /\ status[c] = "reading"
    /\ \E n \in 1 .. Block : \E new \in [1 .. n -> NamesIn(at[c])] :
          /\ at[c] \notin Live => IsPrefix(told[c] \o new, Shown(at[c]))
          /\ told' = [told EXCEPT ![c] = @ \o new]
          /\ reached' = reached \cup ToSet(new)
    /\ UNCHANGED <<status, at, sought>>

\* A stream ends when it has returned everything.
Finish(c) ==
    /\ status[c] = "reading"
    /\ at[c] \notin Live => told[c] = Shown(at[c])
    /\ status' = [status EXCEPT ![c] = "end"]
    /\ UNCHANGED <<reached, at, sought, told>>

\* A name is found if, and unless rows come and go only if, it is a child's.
Resolve(c, d, name) ==
    \/ /\ name \in NamesIn(d)
       /\ status' = [status EXCEPT ![c] = "found"]
       /\ reached' = reached \cup {name}
    \/ /\ d \in Live \/ name \notin NamesIn(d)
       /\ status' = [status EXCEPT ![c] = "none"]
       /\ UNCHANGED reached

\* A lookup is answered at once, or later.
LookUp(c, d, name) ==
    /\ at' = [at EXCEPT ![c] = d]
    /\ sought' = [sought EXCEPT ![c] = name]
    /\ \/ Resolve(c, d, name)
       \/ status' = [status EXCEPT ![c] = "looking"] /\ UNCHANGED reached
    /\ UNCHANGED told

Answer(c) ==
    /\ status[c] = "looking"
    /\ Resolve(c, at[c], sought[c])
    /\ UNCHANGED <<at, sought, told>>

Fail(c) ==
    /\ status[c] \in {"reading", "looking"}
    /\ status' = [status EXCEPT ![c] = "error"]
    /\ UNCHANGED <<reached, at, sought, told>>

Close(c) ==
    /\ status[c] \in {"found", "none", "end", "error"}
    /\ status' = [status EXCEPT ![c] = "idle"]
    /\ at' = [at EXCEPT ![c] = Root]
    /\ sought' = [sought EXCEPT ![c] = NoNode]
    /\ told' = [told EXCEPT ![c] = <<>>]
    /\ UNCHANGED reached

\* A request is about a directory that the kernel knows of.
Ask(c) ==
    /\ status[c] = "idle"
    /\ \E d \in reached \cap DOMAIN Children :
          Open(c, d) \/ \E name \in Nodes : LookUp(c, d, name)

Goes(c) ==
    \/ Ask(c)
    \/ Receive(c) \/ Finish(c) \/ Answer(c) \/ Fail(c) \/ Close(c)

Next == \E c \in Clients : Goes(c)

Spec == Init /\ [][Next]_vars

=============================================================================
