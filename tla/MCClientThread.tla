--------------------------- MODULE MCClientThread ---------------------------
(***************************************************************************)
(* ClientThread on small instances, and its refinement of SessionCalls.  A *)
(* session is cut short by anything that ends the thread, so few evals     *)
(* show every order of the rest.                                           *)
(***************************************************************************)
EXTENDS ClientThread, TLC

\* Future ids are random: no id is told from another.
IdSymmetry == Permutations(Ids)

\* The abstract session, read off the channels and the streams.
Calls == INSTANCE SessionCalls WITH
  calls     <- queued \o codeq,
  sent      <- wrote \div FrameLen,
  answered  <- ElementsOf(resps),
  delivered <- {resps[i] : i \in 1 .. handled},
  held      <- {id \in Ids : mail[id] = <<id>>},
  over      <- Ended

\* Handle, futures and background thread implement the abstract session, over
\* four channels and a stream that cuts and merges messages: code goes out
\* once and in the order it was called in, answers reach their own futures
\* once (client/client/mod.rs:205-233, mainstream.rs, future.rs).
ImplementsSessionCalls == Calls!Spec
=============================================================================
