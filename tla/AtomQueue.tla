----------------------------- MODULE AtomQueue -----------------------------
(***************************************************************************)
(* What a worker promises the sessions it serves: the atoms a session      *)
(* sends are run one at a time, each once, in the order the session sent   *)
(* them.  Nothing is promised of the order between sessions.               *)
(***************************************************************************)
EXTENDS Naturals, Sequences, FiniteSets

CONSTANT Sessions

VARIABLES
  received,       \* atoms the worker has received, per session
  run             \* the atoms run so far, as <<session, number>>

vars == <<received, run>>

RunOf(s) == Cardinality({i \in 1 .. Len(run) : run[i][1] = s})

Init ==
  /\ received = [s \in Sessions |-> 0]
  /\ run = <<>>

\* Atoms may come several at a time.
Receive(s) ==
  /\ received' = [received EXCEPT ![s] = received'[s]]
  /\ received'[s] > received[s]
  /\ UNCHANGED run

Run(s) ==
  /\ RunOf(s) < received[s]
  /\ run' = Append(run, <<s, RunOf(s) + 1>>)
  /\ UNCHANGED received

Next == \E s \in Sessions : Receive(s) \/ Run(s)

Spec == Init /\ [][Next]_vars
=============================================================================
