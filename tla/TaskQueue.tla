----------------------------- MODULE TaskQueue -----------------------------
(***************************************************************************)
(* What a pool of workers promises its users: tasks are put in one order   *)
(* and start in that order, each of them once.  SubReactor uses the pool   *)
(* through exactly this interface (its variable tasks).                    *)
(***************************************************************************)
EXTENDS Sequences

CONSTANT Tasks
VARIABLES queue, started

Init == queue = <<>> /\ started = <<>>

Put(t) == queue' = Append(queue, t) /\ UNCHANGED started

Take ==
    /\ queue # <<>>
    /\ started' = Append(started, Head(queue))
    /\ queue' = Tail(queue)

Next == Take \/ \E t \in Tasks : Put(t)

Spec == Init /\ [][Next]_<<queue, started>>
=============================================================================
