----------------------------- MODULE SessionPool -----------------------------
(***************************************************************************)
(* What the server promises of the handing over of connections, without    *)
(* sockets, polls or buffers: each connection is given to one worker, once *)
(* and for good, and only that makes it a session or gets it turned away.  *)
(***************************************************************************)
CONSTANTS Clients, BadClients, Workers

VARIABLES
  owners,         \* the workers each connection has been given to
  issued,         \* clients that have been drawn a session id
  turnedAway      \* clients whose header a worker refused

poolVars == <<owners, issued, turnedAway>>

Init ==
  /\ owners = [c \in Clients |-> {}]
  /\ issued = {} /\ turnedAway = {}

\* A set of unowned connections goes to one worker.
Assign(S, w) ==
  /\ \A c \in S : owners[c] = {}
  /\ owners' = [c \in Clients |-> IF c \in S THEN {w} ELSE owners[c]]
  /\ UNCHANGED <<issued, turnedAway>>

\* Worker w decides on connections it owns and has not decided on: clients
\* that said hello get a session, the others are turned away.
Decide(S, w) ==
  /\ \A c \in S : owners[c] = {w} /\ c \notin issued \cup turnedAway
  /\ issued' = issued \cup (S \ BadClients)
  /\ turnedAway' = turnedAway \cup (S \cap BadClients)
  /\ UNCHANGED owners

Next == \E w \in Workers, S \in SUBSET Clients : Assign(S, w) \/ Decide(S, w)

Spec == Init /\ [][Next]_poolVars
=============================================================================
