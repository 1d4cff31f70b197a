---------------------------- MODULE MCSubReactor ----------------------------
(* Instances of one reactor: connections, descriptors and workers are each  *)
(* interchangeable (no run with a liveness property uses the symmetry).     *)
EXTENDS SubReactor, TLC

Symmetry == Permutations(Conns) \cup Permutations(Fds) \cup Permutations(Workers)

(* What the client of a closed connection did is forgotten: no action and   *)
(* no invariant reads it any more.                                          *)
OpenConns == {c \in Conns : fdOf[c] # NoFd \/ c \in running}
OpenView ==
    <<[c \in OpenConns |-> <<inq[c], peer[c], proto[c], c \in sndFull>>], msgs,
      kernelVars, readable, accepted, running, outbuf, touched, stateVars, pending,
      threadVars, workerVars, serverVars>>

\* Bounds on the messages: two requests; a request, or two lines.
TwoRequests == [keep |-> 2]
RequestOrLines == [keep |-> 1, line |-> 2]
=============================================================================
