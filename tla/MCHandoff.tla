----------------------------- MODULE MCHandoff -----------------------------
(***************************************************************************)
(* Handoff on small instances, and its refinement of SessionPool.          *)
(***************************************************************************)
EXTENDS Handoff

\* The abstract pool, read off the sockets and the sessions.
Pool == INSTANCE SessionPool WITH
  owners     <- [c \in Clients |->
                   {w \in Workers : \E i \in 1 .. Len(chan[w].fds) :
                                      chan[w].fds[i] = c}],
  issued     <- {c \in Clients : session[c] \in {"greeting", "open", "closed"}},
  turnedAway <- {c \in Clients : session[c] = "rejected"}

\* Master and workers implement the abstract pool: a connection is assigned
\* once, and a worker decides only on a connection assigned to it.
ImplementsSessionPool == Pool!Spec
=============================================================================
