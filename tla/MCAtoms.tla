------------------------------ MODULE MCAtoms ------------------------------
(***************************************************************************)
(* WorkerAtoms on small instances, and its refinement of AtomQueue.        *)
(***************************************************************************)
EXTENDS WorkerAtoms

\* The abstract queue: what has been parsed, and what has been run.
Queue == INSTANCE AtomQueue WITH received <- [s \in Sessions |-> Parsed(s)]

\* A worker implements the abstract queue: every session's atoms are run once
\* and in the order they were sent, through two queues and two threads.
ImplementsAtomQueue == Queue!Spec
=============================================================================
