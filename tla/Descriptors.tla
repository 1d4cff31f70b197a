----------------------------- MODULE Descriptors ----------------------------
(***************************************************************************)
(* The life of a connection's descriptor number: accepted by one thread,   *)
(* closed by another, and given out again by the kernel.  One step per     *)
(* system call of BaseConnection::shutdown and of what socket_.reset()     *)
(* runs, SocketDeleter and ~SocketFd.  A worker and a reactor, or two      *)
(* reactors, may be inside shutdown of two connections at once; the        *)
(* compare_exchange on running_ lets one thread in for each.               *)
(***************************************************************************)
EXTENDS Integers, FiniteSetsExt

CONSTANTS
    Conns,   \* connections accepted over time
    MaxFd,   \* bound: descriptor numbers
    NoConn   \* nobody

VARIABLES
    owner,   \* the kernel's table: the connection whose socket a number is
    fd,      \* the number in the SocketFd of a connection
    pc,      \* where the thread that ends the connection is
    cut      \* connections whose socket was shut down or closed for another

vars == <<owner, fd, pc, cut>>

Fds == 0 .. MaxFd
Free == {f \in Fds : owner[f] = NoConn}

Init ==
    /\ owner = [f \in Fds |-> NoConn]
    /\ fd = [c \in Conns |-> 0]
    /\ pc = [c \in Conns |-> "new"]
    /\ cut = {}

Goto(c, from, to) == pc[c] = from /\ pc' = [pc EXCEPT ![c] = to]

\* Whose socket c would reach under the number it holds, if not its own
Other(c) == {owner[fd[c]]} \ {c, NoConn}

\* ::close of the number c holds: it is free, whoever had it
CloseFd(c) ==
    /\ owner' = [owner EXCEPT ![fd[c]] = NoConn]
    /\ cut' = cut \cup Other(c)
    /\ UNCHANGED fd

\* accept4: the lowest free number
Accept(c) ==
    /\ Free # {} /\ Goto(c, "new", "open")
    /\ fd' = [fd EXCEPT ![c] = Min(Free)]
    /\ owner' = [owner EXCEPT ![Min(Free)] = c]
    /\ UNCHANGED cut

\* shutdown() wins the compare_exchange and sets SO_LINGER.  On a number that
\* is closed the call throws, and the socket stays with the object.
Linger(c) ==
    /\ Goto(c, "open", IF fd[c] \in Free THEN "held" ELSE "close")
    /\ UNCHANGED <<owner, fd, cut>>

\* net_utils::close_safe(fd)
CloseSafe(c) == Goto(c, "close", "shut") /\ CloseFd(c)

\* The object is destroyed, and socket_ with it
Destroy(c) ==
    /\ Goto(c, "held", "shut")
    /\ UNCHANGED <<owner, fd, cut>>

\* SocketDeleter: ::shutdown of both directions ...
ShutBoth(c) ==
    /\ Goto(c, "shut", "deleter")
    /\ cut' = cut \cup Other(c)
    /\ UNCHANGED <<owner, fd>>

\* ... close_safe, and delete, whose destructor closes once more
DeleterCloses(c) == Goto(c, "deleter", "destructor") /\ CloseFd(c)
DestructorCloses(c) == Goto(c, "destructor", "gone") /\ CloseFd(c)

Ending(c) ==
    \/ Linger(c) \/ CloseSafe(c) \/ Destroy(c)
    \/ ShutBoth(c) \/ DeleterCloses(c) \/ DestructorCloses(c)

Next == \E c \in Conns : Accept(c) \/ Ending(c)

Spec == Init /\ [][Next]_vars

-----------------------------------------------------------------------------
(* base_connection.cpp:25 says of shutdown() that it confirms to close      *)
(* once: the end of a connection never reaches the socket of another.       *)
ClosedOnce == cut = {}
=============================================================================
