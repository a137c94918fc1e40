---------------------------- MODULE SessionCalls ----------------------------
(***************************************************************************)
(* What a session promises the Python program that calls eval: its code    *)
(* reaches the server in the order of the calls, each once; an answer goes *)
(* to the future it answers, once, and whoever waits takes it from there   *)
(* once.  The end of the session loses what was not sent, and nothing is   *)
(* called, sent or delivered after it; what was delivered can be taken.    *)
(***************************************************************************)
EXTENDS Naturals, Sequences

CONSTANT Ids

VARIABLES
  calls,          \* the evals called, in order
  sent,           \* how many of them the server has
  answered,       \* ids the server has answered
  delivered,      \* ids whose future has been given its answer
  held,           \* those of them that nobody has taken yet
  over            \* the session has ended

callVars == <<calls, sent, answered, delivered, held, over>>

IdsIn(s) == {s[i] : i \in 1 .. Len(s)}

Init ==
  /\ calls = <<>> /\ sent = 0 /\ answered = {}
  /\ delivered = {} /\ held = {} /\ over = FALSE

Call(id) ==
  /\ ~over /\ id \notin IdsIn(calls)
  /\ calls' = Append(calls, id)
  /\ UNCHANGED <<sent, answered, delivered, held, over>>

\* Several may go in one write.
Send ==
  /\ ~over
  /\ sent' \in sent + 1 .. Len(calls)
  /\ UNCHANGED <<calls, answered, delivered, held, over>>

\* The server answers what it has, in any order.
Answer(id) ==
  /\ id \notin answered
  /\ \E i \in 1 .. sent : calls[i] = id
  /\ answered' = answered \cup {id}
  /\ UNCHANGED <<calls, sent, delivered, held, over>>

Deliver(S) ==
  /\ ~over
  /\ S \subseteq answered \ delivered
  /\ delivered' = delivered \cup S
  /\ held' = held \cup S
  /\ UNCHANGED <<calls, sent, answered, over>>

Take(id) ==
  /\ id \in held
  /\ held' = held \ {id}
  /\ UNCHANGED <<calls, sent, answered, delivered, over>>

End ==
  /\ ~over /\ over' = TRUE
  /\ \E n \in sent .. Len(calls) : calls' = SubSeq(calls, 1, n)
  /\ UNCHANGED <<sent, answered, delivered, held>>

Next ==
  \/ \E id \in Ids : Call(id) \/ Answer(id) \/ Take(id)
  \/ \E S \in SUBSET Ids : Deliver(S)
  \/ Send \/ End

Spec == Init /\ [][Next]_callVars
=============================================================================
