-------------------------- MODULE WorkerAtomsProofs --------------------------
(***************************************************************************)
(* Theorems about WorkerAtoms, for any sessions, numbers and lengths of    *)
(* requests and reads: types, that only broken streams are given up, that  *)
(* a worker implements AtomQueue, and the order of the log.                *)
(*                                                                         *)
(* The refinement rests on one sequence, Flight, of the atoms that were    *)
(* run, the one in hand, those in the channel and the one about to be sent *)
(* there.  Steps move the boundaries between these; only LogRequest        *)
(* lengthens it.                                                           *)
(***************************************************************************)
EXTENDS MCAtoms, FiniteSetTheorems, SequenceTheorems, TLAPS

\* The lesser of two numbers.
LEMMA MinOfTwo ==
  ASSUME NEW a \in Int, NEW b \in Int
  PROVE  Min({a, b}) = IF a <= b THEN a ELSE b
<1> DEFINE m == IF a <= b THEN a ELSE b
<1>1. m \in {a, b} /\ \A y \in {a, b} : m =< y
  OBVIOUS
<1>2. \A x \in {a, b} : (\A y \in {a, b} : x =< y) => x = m
  OBVIOUS
<1> QED BY <1>1, <1>2 DEF Min

\* Division keeps order.
LEMMA DivMonotone ==
  ASSUME NEW d \in Nat \ {0}, NEW m \in Nat, NEW n \in Nat, m <= n
  PROVE  /\ m \div d \in Nat /\ n \div d \in Nat
         /\ m \div d <= n \div d
         /\ 0 \div d = 0
<1>1. m \div d \in Nat /\ n \div d \in Nat /\ 0 \div d = 0
  OBVIOUS
<1>2. m \div d <= n \div d
  OBVIOUS
<1> QED BY <1>1, <1>2

-----------------------------------------------------------------------------
(* Requests are parsed as they are read. *)

\* What is parsed of a session's requests when r units of them are read.
ParsedAt(s, r) == Min({r \div ReqUnits, GoodReqs(s)})

\* It is at most what is sent, nothing at first, and never less later.
LEMMA ParsedBounds ==
  ASSUME NEW s \in Sessions, NEW m \in Nat, NEW n \in Nat, m <= n
  PROVE  /\ ParsedAt(s, m) \in 0 .. MaxReqs /\ ParsedAt(s, n) \in 0 .. MaxReqs
         /\ ParsedAt(s, m) <= ParsedAt(s, n)
         /\ ParsedAt(s, 0) = 0
<1>1. GoodReqs(s) \in 0 .. MaxReqs
  BY WorkerAtomsAssumption DEF GoodReqs
<1>2. /\ m \div ReqUnits \in Nat /\ n \div ReqUnits \in Nat
      /\ m \div ReqUnits <= n \div ReqUnits /\ 0 \div ReqUnits = 0
  BY DivMonotone, WorkerAtomsAssumption
<1>3. /\ ParsedAt(s, m) = IF m \div ReqUnits <= GoodReqs(s)
                          THEN m \div ReqUnits ELSE GoodReqs(s)
      /\ ParsedAt(s, n) = IF n \div ReqUnits <= GoodReqs(s)
                          THEN n \div ReqUnits ELSE GoodReqs(s)
      /\ ParsedAt(s, 0) = 0
  BY <1>1, <1>2, MinOfTwo DEF ParsedAt
<1> QED BY <1>1, <1>2, <1>3, WorkerAtomsAssumption

-----------------------------------------------------------------------------
(* The atoms on their way through the worker, oldest first. *)

Running == IF ipc = "started" THEN <<atom>> ELSE <<>>
Sending == IF wpc = "send" THEN <<<<turn, taken[turn]>>>> ELSE <<>>
Flight == run \o Running \o channel \o Sending

\* Atoms of session s among the first n of q.
Before(q, n, s) == Cardinality({i \in 1 .. n : q[i][1] = s})

\* Every session's atoms are numbered in the order of q, and are as many as
\* count says.
Numbered(q, count) ==
  /\ \A i \in 1 .. Len(q) : /\ q[i][2] = Before(q, i, q[i][1])
                            /\ q[i][2] <= count[q[i][1]]
  /\ \A s \in Sessions : count[s] = Before(q, Len(q), s)

\* An event of a client stream is there for bytes or an end that are there,
\* and no more arrives than is sent.
ReadsFounded ==
  /\ \A s \in readable : arrived[s] > read[s] \/ closed[s]
  /\ \A s \in Sessions : arrived[s] <= ReqUnits * MaxReqs

\* The atom in hand is there.
InHand ==
  /\ ipc # "idle" => atom \in Atoms
  /\ wpc = "send" => turn \in Sessions /\ <<turn, taken[turn]>> \in Atoms

\* The inductive invariant.
IInv == TypeOK /\ ReadsFounded /\ InHand /\ Numbered(Flight, taken) /\ OnlyBrokenGivenUp

\* Counting: appending an atom adds one to its session, and to no other.
LEMMA BeforeAppend ==
  ASSUME NEW q \in Seq(Atoms), NEW a \in Atoms, NEW s
  PROVE  /\ \A n \in 0 .. Len(q) : Before(Append(q, a), n, s) = Before(q, n, s)
         /\ Before(Append(q, a), Len(q) + 1, s) =
              Before(q, Len(q), s) + (IF a[1] = s THEN 1 ELSE 0)
         /\ \A n \in 0 .. Len(q) : Before(q, n, s) \in Nat
<1> DEFINE Q == Append(q, a)
           At(p, n) == {i \in 1 .. n : p[i][1] = s}
<1>1. /\ Len(q) \in Nat /\ \A i \in 1 .. Len(q) : Q[i] = q[i]
      /\ Q[Len(q) + 1] = a
  BY AppendProperties, LenProperties
<1>2. \A n \in 0 .. Len(q) : At(Q, n) = At(q, n)
  BY <1>1
<1>3. \A n \in 0 .. Len(q) : IsFiniteSet(At(q, n)) /\ Cardinality(At(q, n)) \in Nat
  <2> TAKE n \in 0 .. Len(q)
  <2>1. IsFiniteSet(1 .. n) /\ At(q, n) \in SUBSET (1 .. n)
    BY <1>1, FS_Interval
  <2> QED BY <2>1, FS_Subset, FS_CardinalityType
<1>4. At(Q, Len(q) + 1) = IF a[1] = s THEN At(q, Len(q)) \cup {Len(q) + 1}
                                     ELSE At(q, Len(q))
  BY <1>1
<1>5. Len(q) + 1 \notin At(q, Len(q))
  BY <1>1
<1> HIDE DEF At
<1>6. Cardinality(At(Q, Len(q) + 1)) =
        Cardinality(At(q, Len(q))) + (IF a[1] = s THEN 1 ELSE 0)
  <2>1. IsFiniteSet(At(q, Len(q))) /\ Cardinality(At(q, Len(q))) \in Nat
    BY <1>1, <1>3
  <2>2. Cardinality(At(q, Len(q)) \cup {Len(q) + 1}) = Cardinality(At(q, Len(q))) + 1
    BY <1>5, <2>1, FS_AddElement
  <2> QED BY <1>4, <2>1, <2>2
<1> QED BY <1>2, <1>3, <1>6 DEF Before, At

\* A taken request joins the atoms under way at their end, with the number
\* that is due.
LEMMA NumberedAppend ==
  ASSUME NEW q \in Seq(Atoms), NEW s \in Sessions, NEW count \in [Sessions -> Nat],
         Numbered(q, count), <<s, count[s] + 1>> \in Atoms
  PROVE  Numbered(Append(q, <<s, count[s] + 1>>), [count EXCEPT ![s] = @ + 1])
<1> DEFINE a == <<s, count[s] + 1>>
           Q == Append(q, a)
           next == [count EXCEPT ![s] = @ + 1]
<1>1. /\ Len(q) \in Nat /\ Len(Q) = Len(q) + 1
      /\ \A i \in 1 .. Len(q) : Q[i] = q[i] /\ q[i] \in Atoms
      /\ Q[Len(q) + 1] = a
  BY AppendProperties, LenProperties, ElementOfSeq
<1>2. /\ next \in [Sessions -> Nat] /\ next[s] = count[s] + 1
      /\ \A t \in Sessions : count[t] <= next[t] /\ (t # s => next[t] = count[t])
  OBVIOUS
<1>3. ASSUME NEW i \in 1 .. Len(Q)
      PROVE  Q[i][2] = Before(Q, i, Q[i][1]) /\ Q[i][2] <= next[Q[i][1]]
  <2>1. CASE i <= Len(q)
    <3>1. i \in 1 .. Len(q) /\ i \in 0 .. Len(q)
      BY <1>1, <2>1
    <3>2. q[i][1] \in Sessions /\ q[i][2] \in Nat
      BY <1>1, <3>1 DEF Atoms
    <3>3. Before(Q, i, q[i][1]) = Before(q, i, q[i][1])
      BY <3>1, BeforeAppend
    <3> QED BY <1>1, <1>2, <3>1, <3>2, <3>3 DEF Numbered
  <2>2. CASE i = Len(q) + 1
    <3>1. Before(Q, Len(q) + 1, s) = Before(q, Len(q), s) + 1
      BY BeforeAppend
    <3> QED BY <1>1, <1>2, <2>2, <3>1 DEF Numbered
  <2> QED BY <1>1, <2>1, <2>2
<1>4. ASSUME NEW t \in Sessions
      PROVE  next[t] = Before(Q, Len(Q), t)
  <2>1. Before(Q, Len(q) + 1, t) = Before(q, Len(q), t) + (IF s = t THEN 1 ELSE 0)
    BY BeforeAppend
  <2> QED BY <1>1, <1>2, <2>1 DEF Numbered
<1> QED BY <1>3, <1>4 DEF Numbered

-----------------------------------------------------------------------------
(* The invariant is established and kept. *)

\* Sequences of one element, and the first element of a sequence put back.
LEMMA OneElement ==
  ASSUME NEW S, NEW e \in S
  PROVE  <<e>> \in Seq(S) /\ Len(<<e>>) = 1 /\ <<e>>[1] = e
  OBVIOUS

LEMMA HeadThenTail ==
  ASSUME NEW S, NEW q \in Seq(S), q # <<>>
  PROVE  q = <<Head(q)>> \o Tail(q)
<1>1. /\ Head(q) \in S /\ Head(q) = q[1]
      /\ Tail(q) \in Seq(S) /\ Len(q) \in Nat \ {0}
      /\ Len(Tail(q)) = Len(q) - 1
      /\ \A i \in 1 .. Len(q) - 1 : Tail(q)[i] = q[i + 1]
  BY HeadTailProperties, EmptySeq
<1> DEFINE p == <<Head(q)>> \o Tail(q)
<1>2. /\ p \in Seq(S) /\ Len(p) = Len(q)
      /\ \A i \in 1 .. Len(q) : p[i] = IF i <= 1 THEN q[1] ELSE Tail(q)[i - 1]
  BY <1>1, OneElement, ConcatProperties
<1>3. \A i \in 1 .. Len(q) : p[i] = q[i]
  BY <1>1, <1>2
<1> QED BY <1>2, <1>3, SeqEqual

\* The parts of Flight are sequences of atoms.
LEMMA FlightType ==
  ASSUME TypeOK, InHand
  PROVE  /\ Running \in Seq(Atoms) /\ Sending \in Seq(Atoms)
         /\ run \o Running \in Seq(Atoms) /\ (run \o Running) \o channel \in Seq(Atoms)
         /\ Flight \in Seq(Atoms)
<1>1. Running \in Seq(Atoms) /\ Sending \in Seq(Atoms)
  BY EmptySeq, OneElement DEF Running, Sending, InHand
<1> QED BY <1>1, ConcatProperties DEF Flight, TypeOK

\* Messages about atoms keep the log a log, and only make it longer.
LEMMA LogsType ==
  ASSUME TypeOK, NEW kind \in Kinds, NEW a \in Atoms,
         log' = log \o <<Message(kind, a)>> \/ log' = log
  PROVE  /\ log' \in Seq([kind : Kinds, atom : Atoms])
         /\ Len(log') >= Len(log) /\ Len(log) \in Nat /\ Len(log') \in Nat
<1>1. Message(kind, a) \in [kind : Kinds, atom : Atoms]
  BY DEF Message
<1>2. log \in Seq([kind : Kinds, atom : Atoms])
  BY DEF TypeOK
<1> DEFINE M == [kind : Kinds, atom : Atoms]
           m == Message(kind, a)
<1>3. /\ log \o <<m>> \in Seq(M) /\ Len(log \o <<m>>) = Len(log) + Len(<<m>>)
      /\ Len(<<m>>) = 1
  BY <1>1, <1>2, OneElement, ConcatProperties
<1>4. Len(log) \in Nat
  BY <1>2, LenProperties
<1>5. CASE log' = log
  BY <1>2, <1>4, <1>5
<1>6. CASE log' = log \o <<m>>
  <2> HIDE DEF M, m
  <2>1. log' \in Seq(M) /\ Len(log') = Len(log) + 1
    BY <1>3, <1>6
  <2> QED BY <1>4, <2>1 DEF M
<1> QED BY <1>5, <1>6

\* At first nothing has been sent.
LEMMA InitInv == Init => IInv
<1> SUFFICES ASSUME Init PROVE IInv
  OBVIOUS
<1>1. \A s \in Sessions : Parsed(s) = 0
  BY ParsedBounds DEF Init, Parsed, ParsedAt
<1>2. TypeOK
  <2>1. /\ arrived \in [Sessions -> Nat] /\ read \in [Sessions -> Nat]
        /\ taken \in [Sessions -> Nat] /\ closed \in [Sessions -> BOOLEAN]
        /\ \A s \in Sessions : taken[s] = 0 /\ read[s] = 0 /\ arrived[s] = 0
    BY DEF Init
  <2>2. /\ channel \in Seq(Atoms) /\ run \in Seq(Atoms)
        /\ log \in Seq([kind : Kinds, atom : Atoms]) /\ Len(log) = 0
    BY EmptySeq DEF Init
  <2>3. /\ logRead \in Nat /\ wrote \in Nat /\ logRead <= wrote
        /\ wrote <= 2 * Len(log)
    BY <2>2 DEF Init
  <2>4. \A s \in Sessions : taken[s] <= Parsed(s) /\ read[s] <= arrived[s]
    BY <1>1, <2>1
  <2> QED BY <2>1, <2>2, <2>3, <2>4 DEF Init, TypeOK
<1>3. ReadsFounded /\ InHand /\ OnlyBrokenGivenUp
  BY WorkerAtomsAssumption DEF Init, ReadsFounded, InHand, OnlyBrokenGivenUp
<1>4. Flight = <<>>
  BY EmptySeq, ConcatEmptySeq DEF Init, Flight, Running, Sending
<1>5. \A s \in Sessions : Before(<<>>, 0, s) = 0
  <2>1. \A s : {i \in 1 .. 0 : <<>>[i][1] = s} = {}
    OBVIOUS
  <2> QED BY <2>1, FS_EmptySet DEF Before
<1>6. Numbered(Flight, taken)
  BY <1>4, <1>5 DEF Numbered, Init
<1> QED BY <1>2, <1>3, <1>6 DEF IInv

\* Clients send and close as they like.
LEMMA ClientStepInv ==
  ASSUME IInv, NEW s \in Sessions, ClientStep(s)
  PROVE  IInv'
<1> USE DEF IInv, clientVars, loopVars, threadVars, logVars
<1>1. ASSUME NEW n \in 1 .. ReqUnits, ClientSends(s, n)
      PROVE  IInv'
  <2>1. TypeOK'
    <3>1. /\ arrived' \in [Sessions -> Nat]
          /\ \A t \in Sessions : read[t] <= arrived'[t]
      BY <1>1, WorkerAtomsAssumption DEF ClientSends, TypeOK
    <3> QED BY <1>1, <3>1 DEF ClientSends, TypeOK, EdgeAt, Parsed
  <2>2. ReadsFounded' /\ InHand' /\ OnlyBrokenGivenUp'
    <3>1. /\ arrived' = [arrived EXCEPT ![s] = arrived[s] + n]
          /\ arrived[s] + n <= ReqUnits * MaxReqs /\ n >= 1
          /\ UNCHANGED <<closed, read, taken, watched, wpc, turn, readable, ipc, atom>>
      BY <1>1 DEF ClientSends
    <3>2. \A t \in Sessions : arrived'[t] \in Nat /\ read[t] \in Nat
                             /\ arrived[t] \in Nat /\ arrived'[t] >= arrived[t]
      <4>1. /\ arrived \in [Sessions -> Nat] /\ read \in [Sessions -> Nat]
            /\ arrived' \in [Sessions -> Nat]
        BY <2>1 DEF TypeOK
      <4> QED BY <3>1, <4>1
    <3>3. ReadsFounded'
      BY <3>1, <3>2 DEF ReadsFounded, TypeOK
    <3>4. OnlyBrokenGivenUp'
      <4>1. ~closed[s] /\ \A t \in Sessions : t # s => arrived'[t] = arrived[t]
        BY <1>1, <3>1 DEF ClientSends, TypeOK
      <4> QED BY <3>1, <4>1 DEF OnlyBrokenGivenUp, GoodReqs
    <3> QED BY <3>1, <3>3, <3>4 DEF InHand
  <2>3. Numbered(Flight, taken)'
    BY <1>1 DEF ClientSends, Flight, Running, Sending
  <2> QED BY <2>1, <2>2, <2>3
<1>2. CASE ClientCloses(s)
  <2>1. TypeOK'
    BY <1>2 DEF ClientCloses, TypeOK, EdgeAt, Parsed
  <2>2. ReadsFounded' /\ InHand' /\ OnlyBrokenGivenUp'
    BY <1>2 DEF ClientCloses, TypeOK, ReadsFounded, InHand, OnlyBrokenGivenUp, GoodReqs
  <2>3. Numbered(Flight, taken)'
    BY <1>2 DEF ClientCloses, Flight, Running, Sending
  <2> QED BY <2>1, <2>2, <2>3
<1> QED BY <1>1, <1>2 DEF ClientStep

\* The loop gives a stream up only on an error: a read that brings nothing
\* found the end, and one past the good requests found garbage.
LEMMA ReadClientInv ==
  ASSUME IInv, NEW s \in Sessions, ReadClient(s)
  PROVE  IInv'
<1> USE DEF IInv
<1> DEFINE n == Min({read[s] + ReadUnits, arrived[s]})
<1>1. /\ arrived \in [Sessions -> Nat] /\ read \in [Sessions -> Nat]
      /\ read[s] <= arrived[s] /\ (arrived[s] > read[s] \/ closed[s])
      /\ arrived[s] <= ReqUnits * MaxReqs
  BY DEF TypeOK, ReadsFounded, ReadClient
<1>2. /\ n \in Nat /\ read[s] <= n /\ n <= arrived[s]
      /\ n = read[s] => n = arrived[s]
  <2>1. read[s] \in Nat /\ arrived[s] \in Nat /\ ReadUnits \in Nat \ {0}
    BY <1>1, WorkerAtomsAssumption
  <2>2. n = IF read[s] + ReadUnits <= arrived[s] THEN read[s] + ReadUnits
                                                 ELSE arrived[s]
    BY <2>1, MinOfTwo
  <2> QED BY <1>1, <2>1, <2>2
<1>3. read' = [read EXCEPT ![s] = n]
  BY DEF ReadClient
<1> HIDE DEF n
<1>4. /\ read' \in [Sessions -> Nat] /\ read'[s] = n
      /\ \A t \in Sessions : t # s => read'[t] = read[t]
      /\ \A t \in Sessions : read[t] <= read'[t] /\ read'[t] <= arrived[t]
  BY <1>1, <1>2, <1>3 DEF TypeOK
<1>5. \A t \in Sessions : taken[t] <= Parsed(t)'
  <2> TAKE t \in Sessions
  <2>1. taken[t] \in Nat /\ taken[t] <= ParsedAt(t, read[t])
    BY DEF TypeOK, Parsed, ParsedAt
  <2>2. /\ ParsedAt(t, read[t]) <= ParsedAt(t, read'[t])
        /\ ParsedAt(t, read[t]) \in Nat /\ ParsedAt(t, read'[t]) \in Nat
    BY <1>4, ParsedBounds, WorkerAtomsAssumption DEF TypeOK
  <2>3. Parsed(t)' = ParsedAt(t, read'[t])
    BY DEF Parsed, ParsedAt, GoodReqs
  <2> QED BY <2>1, <2>2, <2>3
<1>6. /\ watched' \subseteq watched /\ ready' \subseteq ready
      /\ watched' # watched => watched' = watched \ {s} /\ ReadFails(s, n)
  BY DEF ReadClient, n
<1>7. TypeOK'
  BY <1>4, <1>5, <1>6 DEF ReadClient, TypeOK, threadVars, logVars
<1>8. ReadsFounded' /\ InHand'
  BY <1>4 DEF ReadClient, TypeOK, ReadsFounded, InHand, threadVars
<1>9. ReadFails(s, n) => \/ closed[s] /\ n = arrived[s]
                         \/ n > ReqUnits * GoodReqs(s)
  BY <1>1, <1>2 DEF ReadFails
<1>10. OnlyBrokenGivenUp'
  <2> SUFFICES ASSUME NEW t \in Sessions \ watched'
               PROVE  \/ closed[t] /\ read'[t] = arrived[t]
                      \/ read'[t] > ReqUnits * GoodReqs(t)
    BY DEF ReadClient, OnlyBrokenGivenUp, GoodReqs
  <2>1. CASE t \in watched
    BY <1>4, <1>6, <1>9, <2>1
  <2>2. CASE t \notin watched
    <3>1. /\ ReqUnits * GoodReqs(t) \in Nat /\ read[t] \in Nat
          /\ read'[t] \in Nat /\ arrived[t] \in Nat
      BY <1>1, <1>4, WorkerAtomsAssumption DEF GoodReqs
    <3>2. \/ closed[t] /\ read[t] = arrived[t]
          \/ read[t] > ReqUnits * GoodReqs(t)
      BY <2>2 DEF OnlyBrokenGivenUp
    <3>3. read[t] <= read'[t] /\ read'[t] <= arrived[t]
      BY <1>4
    <3> HIDE DEF GoodReqs
    <3> QED BY <3>1, <3>2, <3>3
  <2> QED BY <2>1, <2>2
<1>11. Numbered(Flight, taken)'
  BY DEF ReadClient, Flight, Running, Sending, threadVars
<1> QED BY <1>7, <1>8, <1>10, <1>11

\* A request that is popped is the next of its session to be numbered.
LEMMA LogRequestInv ==
  ASSUME IInv, NEW s \in Sessions, LogRequest(s)
  PROVE  IInv'
<1> USE DEF IInv
<1> DEFINE a == <<s, taken[s] + 1>>
<1>1. \A t \in Sessions : Parsed(t) \in 0 .. MaxReqs
  BY ParsedBounds DEF Parsed, ParsedAt, TypeOK
<1>2. /\ taken \in [Sessions -> Nat] /\ taken[s] \in Nat
      /\ taken[s] + 1 <= Parsed(s)
  BY <1>1, WorkerAtomsAssumption DEF LogRequest, Pending, TypeOK
<1>3. a \in Atoms
  BY <1>1, <1>2, WorkerAtomsAssumption DEF Atoms
<1>4. /\ taken' = [taken EXCEPT ![s] = @ + 1] /\ taken' \in [Sessions -> Nat]
      /\ wpc = "drain" /\ wpc' = "send" /\ turn' = s /\ taken'[s] = taken[s] + 1
      /\ Parsed(s)' = Parsed(s)
  BY <1>2 DEF LogRequest, Parsed
<1>5. \A t \in Sessions : taken'[t] <= Parsed(t)'
  BY <1>2, <1>4 DEF LogRequest, TypeOK, Parsed
<1>6. /\ log' \in Seq([kind : Kinds, atom : Atoms]) /\ Len(log') >= Len(log)
      /\ Len(log) \in Nat /\ Len(log') \in Nat /\ wrote' = wrote /\ logRead' = logRead
      /\ full' = full /\ mready' = mready
  <2>1. log' = log \o <<Message("queueing", a)>>
    BY DEF LogRequest, Logs, Queueing
  <2> QED BY <1>3, <2>1, LogsType DEF LogRequest, Logs, Kinds
<1>7. TypeOK'
  BY <1>4, <1>5, <1>6 DEF LogRequest, TypeOK, threadVars
<1>8. ReadsFounded' /\ InHand' /\ OnlyBrokenGivenUp'
  BY <1>3, <1>4 DEF LogRequest, ReadsFounded, InHand, OnlyBrokenGivenUp, threadVars
<1>9. Flight' = Append(Flight, a)
  <2>1. Flight = (run \o Running) \o channel /\ Flight \in Seq(Atoms)
    BY <1>4, FlightType, ConcatEmptySeq DEF Flight, Sending
  <2>2. Flight' = ((run \o Running) \o channel) \o <<a>>
    BY <1>4 DEF LogRequest, Flight, Running, Sending, threadVars
  <2> QED BY <1>3, <2>1, <2>2, AppendIsConcat
<1>10. Numbered(Flight', taken')
  BY <1>2, <1>3, <1>4, <1>9, FlightType, NumberedAppend
<1> QED BY <1>7, <1>8, <1>10 DEF Numbered, Before

\* The other steps of the loop move no atom, or the one in hand from one
\* place to the next.
LEMMA LoopStepInv ==
  ASSUME IInv, LoopStep
  PROVE  IInv'
<1> USE DEF IInv
<1>1. CASE LoopTop
  <2>1. TypeOK'
    BY <1>1 DEF LoopTop, TypeOK, WantedInterest, Parsed, clientVars, threadVars, logVars
  <2>2. ReadsFounded' /\ InHand' /\ OnlyBrokenGivenUp' /\ Numbered(Flight, taken)'
    BY <1>1 DEF LoopTop, ReadsFounded, InHand, OnlyBrokenGivenUp, Flight, Running,
                Sending, clientVars, threadVars
  <2> QED BY <2>1, <2>2
<1>2. CASE SendRequest
  <2> DEFINE a == <<turn, taken[turn]>>
  <2>1. a \in Atoms /\ channel' = Append(channel, a) /\ channel \in Seq(Atoms)
        /\ wpc = "send" /\ wpc' = "drain" /\ turn' \in {turn, NoSession}
    BY <1>2 DEF SendRequest, Sent, InHand, TypeOK
  <2>2. channel' \in Seq(Atoms)
    BY <2>1, AppendProperties
  <2>3. TypeOK'
    BY <1>2, <2>1, <2>2 DEF SendRequest, TypeOK, Parsed, clientVars, logVars
  <2>4. ReadsFounded' /\ InHand' /\ OnlyBrokenGivenUp'
    BY <1>2, <2>1 DEF SendRequest, ReadsFounded, InHand, OnlyBrokenGivenUp, clientVars
  <2>5. Flight' = Flight
    <3>1. /\ run \o Running \in Seq(Atoms) /\ <<a>> \in Seq(Atoms)
          /\ Flight = ((run \o Running) \o channel) \o <<a>>
      BY <2>1, FlightType, OneElement DEF Flight, Sending
    <3>2. Flight' = (run \o Running) \o channel'
      <4>1. Flight' = ((run \o Running) \o channel') \o <<>>
        BY <1>2, <2>1 DEF SendRequest, Flight, Running, Sending
      <4> QED BY <2>2, <3>1, <4>1, ConcatEmptySeq, ConcatProperties
    <3>3. channel' = channel \o <<a>>
      BY <2>1, AppendIsConcat
    <3> DEFINE p == run \o Running
    <3>4. (p \o channel) \o <<a>> = p \o (channel \o <<a>>)
      <4>1. p \in Seq(Atoms) /\ channel \in Seq(Atoms) /\ <<a>> \in Seq(Atoms)
        BY <2>1, <3>1
      <4> HIDE DEF p, a
      <4> QED BY <4>1, ConcatAssociative
    <3> QED BY <3>1, <3>2, <3>3, <3>4
  <2>6. Numbered(Flight, taken)'
    BY <1>2, <2>5 DEF SendRequest, clientVars, Numbered, Before
  <2> QED BY <2>3, <2>4, <2>6
<1>3. CASE Poll
  <2>1. TypeOK'
    BY <1>3 DEF Poll, TypeOK, Parsed, clientVars, threadVars, logVars
  <2>2. ReadsFounded' /\ InHand' /\ OnlyBrokenGivenUp' /\ Numbered(Flight, taken)'
    BY <1>3 DEF Poll, ReadsFounded, InHand, OnlyBrokenGivenUp, Flight, Running,
                Sending, clientVars, threadVars
  <2> QED BY <2>1, <2>2
<1>4. CASE WriteLog
  <2>1. PICK n \in {LogLen} \cup (1 .. LogLen) :
          wrote' = wrote + n /\ full' = (n < LogLen) /\ mready' = (mready \/ n > 0)
    BY <1>4 DEF WriteLog
  <2>2. Len(log) \in Nat /\ wrote \in Nat /\ wrote <= 2 * Len(log) /\ log' = log
        /\ logRead \in Nat /\ logRead <= wrote /\ logRead' = logRead
    BY <1>4, LenProperties DEF WriteLog, TypeOK
  <2>3. wrote' \in Nat /\ logRead' <= wrote' /\ wrote' <= 2 * Len(log')
    BY <2>1, <2>2 DEF LogLen
  <2>4. full' \in BOOLEAN /\ mready' \in BOOLEAN
    BY <2>1 DEF TypeOK
  <2>5. TypeOK'
    BY <1>4, <2>2, <2>3, <2>4 DEF WriteLog, TypeOK, Parsed, clientVars, threadVars
  <2>6. ReadsFounded' /\ InHand' /\ OnlyBrokenGivenUp' /\ Numbered(Flight, taken)'
    BY <1>4 DEF WriteLog, ReadsFounded, InHand, OnlyBrokenGivenUp, Flight, Running,
                Sending, clientVars, threadVars
  <2> QED BY <2>5, <2>6
<1> QED BY <1>1, <1>2, <1>3, <1>4, ReadClientInv, LogRequestInv DEF LoopStep

\* What the thread changes, and what it does not.
LEMMA ThreadTypeOK ==
  ASSUME TypeOK, UNCHANGED <<clientVars, loopVars, wrote, logRead, full, mready>>,
         channel' \in Seq(Atoms), run' \in Seq(Atoms),
         ipc' \in {"idle", "started", "ran"}, atom' \in Atoms \cup {NoAtom},
         log' \in Seq([kind : Kinds, atom : Atoms]), Len(log') >= Len(log),
         Len(log) \in Nat, Len(log') \in Nat
  PROVE  TypeOK'
<1>1. /\ wrote' \in Nat /\ logRead' \in Nat
      /\ logRead' <= wrote' /\ wrote' <= 2 * Len(log')
  BY DEF TypeOK
<1>2. \A s \in Sessions : taken'[s] <= Parsed(s)' /\ read'[s] <= arrived'[s]
  BY DEF TypeOK, Parsed, clientVars
<1> QED BY <1>1, <1>2 DEF TypeOK, clientVars, loopVars

\* The thread moves the oldest atom of the channel to those that were run.
LEMMA ThreadStepInv ==
  ASSUME IInv, ThreadStep
  PROVE  IInv'
<1> USE DEF IInv
<1>1. CASE StartAtom
  <2>1. /\ channel \in Seq(Atoms) /\ channel # <<>> /\ Head(channel) \in Atoms
        /\ channel' = Tail(channel) /\ channel' \in Seq(Atoms)
        /\ ipc = "idle" /\ ipc' = "started" /\ atom' = Head(channel)
    BY <1>1, HeadTailProperties DEF StartAtom, TypeOK
  <2>2. /\ log' \in Seq([kind : Kinds, atom : Atoms]) /\ Len(log') >= Len(log)
        /\ Len(log) \in Nat /\ Len(log') \in Nat /\ wrote' = wrote
        /\ logRead' = logRead /\ full' = full /\ mready' = mready
    BY <1>1, <2>1, LogsType DEF StartAtom, Logs, Kinds
  <2>3. TypeOK'
    BY <1>1, <2>1, <2>2, ThreadTypeOK DEF StartAtom, TypeOK
  <2>4. ReadsFounded' /\ InHand' /\ OnlyBrokenGivenUp'
    BY <1>1, <2>1
    DEF StartAtom, ReadsFounded, InHand, OnlyBrokenGivenUp, clientVars, loopVars
  <2>5. Flight' = Flight
    <3> DEFINE h == Head(channel)
    <3>1. run \in Seq(Atoms) /\ <<h>> \in Seq(Atoms) /\ Sending \in Seq(Atoms)
      BY <2>1, FlightType, OneElement DEF TypeOK
    <3>2. Flight = (run \o channel) \o Sending
      BY <2>1, <3>1, ConcatEmptySeq DEF Flight, Running
    <3>3. Flight' = ((run \o <<h>>) \o channel') \o Sending
      BY <1>1, <2>1 DEF StartAtom, Flight, Running, Sending, loopVars, clientVars
    <3>4. (run \o <<h>>) \o channel' = run \o channel
      BY <2>1, <3>1, HeadThenTail, ConcatAssociative
    <3> QED BY <3>2, <3>3, <3>4
  <2>6. Numbered(Flight, taken)'
    BY <1>1, <2>5 DEF StartAtom, clientVars, Numbered, Before
  <2> QED BY <2>3, <2>4, <2>6
<1>2. ASSUME NEW raises \in BOOLEAN, RunAtom(raises)
      PROVE  IInv'
  <2>1. /\ atom \in Atoms /\ run \in Seq(Atoms) /\ run' = Append(run, atom)
        /\ ipc = "started" /\ ipc' = "ran" /\ atom' = atom
    BY <1>2 DEF RunAtom, InHand, TypeOK
  <2>2. run' \in Seq(Atoms)
    BY <2>1, AppendProperties
  <2>3. /\ log' \in Seq([kind : Kinds, atom : Atoms]) /\ Len(log') >= Len(log)
        /\ Len(log) \in Nat /\ Len(log') \in Nat /\ wrote' = wrote
        /\ logRead' = logRead /\ full' = full /\ mready' = mready
    <3>1. log' = log \o <<Message("error", atom)>> \/ log' = log
      BY <1>2, ConcatEmptySeq DEF RunAtom, Logs, TypeOK
    <3> QED BY <1>2, <2>1, <3>1, LogsType DEF RunAtom, Logs, Kinds
  <2>4. TypeOK'
    BY <1>2, <2>1, <2>2, <2>3, ThreadTypeOK DEF RunAtom, TypeOK
  <2>5. ReadsFounded' /\ InHand' /\ OnlyBrokenGivenUp'
    BY <1>2, <2>1
    DEF RunAtom, ReadsFounded, InHand, OnlyBrokenGivenUp, clientVars, loopVars
  <2>6. Flight' = Flight
    <3>1. Flight = ((run \o <<atom>>) \o channel) \o Sending
      BY <2>1 DEF Flight, Running
    <3>2. Flight' = ((run' \o <<>>) \o channel) \o Sending
      BY <1>2, <2>1 DEF RunAtom, Flight, Running, Sending, loopVars, clientVars
    <3>3. run' \o <<>> = run \o <<atom>>
      BY <2>1, <2>2, ConcatEmptySeq, AppendIsConcat
    <3> QED BY <3>1, <3>2, <3>3
  <2>7. Numbered(Flight, taken)'
    BY <1>2, <2>6 DEF RunAtom, clientVars, Numbered, Before
  <2> QED BY <2>4, <2>5, <2>7
<1>3. CASE FinishAtom
  <2>1. atom \in Atoms /\ ipc = "ran" /\ ipc' = "idle" /\ atom' = NoAtom
    BY <1>3 DEF FinishAtom, InHand
  <2>2. /\ log' \in Seq([kind : Kinds, atom : Atoms]) /\ Len(log') >= Len(log)
        /\ Len(log) \in Nat /\ Len(log') \in Nat /\ wrote' = wrote
        /\ logRead' = logRead /\ full' = full /\ mready' = mready
    BY <1>3, <2>1, LogsType DEF FinishAtom, Logs, Kinds
  <2>3. TypeOK'
    BY <1>3, <2>1, <2>2, ThreadTypeOK DEF FinishAtom, TypeOK
  <2>4. /\ ReadsFounded' /\ InHand' /\ OnlyBrokenGivenUp' /\ Numbered(Flight, taken)'
    BY <1>3, <2>1 DEF FinishAtom, ReadsFounded, InHand, OnlyBrokenGivenUp, Flight,
                      Running, Sending, clientVars, loopVars
  <2> QED BY <2>3, <2>4
<1> QED BY <1>1, <1>2, <1>3 DEF ThreadStep

\* Master reads what was written.
LEMMA MasterReadsInv ==
  ASSUME IInv, MasterReads
  PROVE  IInv'
<1> USE DEF IInv
<1>1. logRead' \in Nat /\ logRead' <= wrote /\ wrote' = wrote /\ log' = log
  <2>1. logRead \in Nat /\ wrote \in Nat /\ ReadUnits \in Nat /\ logRead <= wrote
    BY WorkerAtomsAssumption DEF TypeOK
  <2>2. Min({logRead + ReadUnits, wrote}) =
          IF logRead + ReadUnits <= wrote THEN logRead + ReadUnits ELSE wrote
    BY <2>1, MinOfTwo
  <2> QED BY <2>1, <2>2 DEF MasterReads
<1>2. TypeOK'
  BY <1>1 DEF MasterReads, TypeOK, Parsed, clientVars, threadVars
<1>3. ReadsFounded' /\ InHand' /\ OnlyBrokenGivenUp' /\ Numbered(Flight, taken)'
  BY DEF MasterReads, ReadsFounded, InHand, OnlyBrokenGivenUp, Flight, Running,
         Sending, clientVars, threadVars
<1> QED BY <1>2, <1>3

\* So the invariant holds throughout.
THEOREM AtomsInvariance == Spec => []IInv
<1>1. IInv /\ UNCHANGED vars => IInv'
  <2> SUFFICES ASSUME IInv, UNCHANGED vars PROVE IInv'
    OBVIOUS
  <2> USE DEF vars, clientVars, loopVars, threadVars, logVars, IInv
  <2>1. TypeOK'
    BY DEF TypeOK, Parsed
  <2>2. ReadsFounded' /\ InHand' /\ OnlyBrokenGivenUp' /\ Numbered(Flight, taken)'
    BY DEF ReadsFounded, InHand, OnlyBrokenGivenUp, Flight, Running, Sending
  <2> QED BY <2>1, <2>2
<1>2. IInv /\ Next => IInv'
  BY ClientStepInv, LoopStepInv, ThreadStepInv, MasterReadsInv DEF Next
<1> QED BY <1>1, <1>2, InitInv, PTL DEF Spec

\* Variables keep their types, and counts their order, for any sessions,
\* lengths of requests and reads (runworker/mod.rs).
THEOREM AtomsTypeCorrect == Spec => []TypeOK
  BY AtomsInvariance, PTL DEF IInv

\* A client stream is given up (runworker/mod.rs:173) for its own end or its
\* own garbage only, however reads cut the requests of the sessions.
THEOREM OnlyBrokenGivenUpHolds == Spec => []OnlyBrokenGivenUp
  BY AtomsInvariance, PTL DEF IInv

-----------------------------------------------------------------------------
(* The refinement. *)

\* The atom that is about to be run is the next of its session, and received.
LEMMA NextToRun ==
  ASSUME IInv, ipc = "started"
  PROVE  /\ atom = <<atom[1], Queue!RunOf(atom[1]) + 1>>
         /\ atom[1] \in Sessions
         /\ Queue!RunOf(atom[1]) < Parsed(atom[1])
<1> DEFINE s == atom[1]
           L == Len(run)
<1>1. /\ run \in Seq(Atoms) /\ L \in Nat /\ atom \in Atoms /\ s \in Sessions
      /\ atom = <<s, atom[2]>> /\ atom[2] \in Nat
  BY LenProperties DEF IInv, TypeOK, InHand, Atoms
<1>2. /\ Flight \in Seq(Atoms) /\ L + 1 \in 1 .. Len(Flight)
      /\ \A i \in 1 .. L : Flight[i] = Append(run, atom)[i]
      /\ Flight[L + 1] = atom
  <2> DEFINE q == Append(run, atom)
             p == channel \o Sending
  <2>1. q \in Seq(Atoms) /\ Len(q) = L + 1 /\ q[L + 1] = atom
    BY <1>1, AppendProperties
  <2>2. channel \in Seq(Atoms) /\ Sending \in Seq(Atoms) /\ p \in Seq(Atoms)
    BY FlightType, ConcatProperties DEF IInv, TypeOK
  <2>3. Flight = q \o p
    <3>1. Flight = (q \o channel) \o Sending
      BY <1>1, AppendIsConcat DEF Flight, Running
    <3> QED BY <2>1, <2>2, <3>1, ConcatAssociative
  <2>4. Len(p) \in Nat
    BY <2>2, LenProperties
  <2> HIDE DEF q, p
  <2>5. /\ Flight \in Seq(Atoms) /\ Len(Flight) = L + 1 + Len(p)
        /\ \A i \in 1 .. L + 1 : Flight[i] = q[i]
    <3>1. /\ q \o p \in Seq(Atoms) /\ Len(q \o p) = Len(q) + Len(p)
          /\ \A i \in 1 .. Len(q) + Len(p) :
               (q \o p)[i] = IF i <= Len(q) THEN q[i] ELSE p[i - Len(q)]
      BY <2>1, <2>2, ConcatProperties
    <3> HIDE DEF L
    <3> QED BY <1>1, <2>1, <2>3, <2>4, <3>1
  <2> QED BY <1>1, <2>1, <2>4, <2>5, AppendProperties DEF q
<1>3. Before(Flight, L + 1, s) = Before(Append(run, atom), L + 1, s)
  <2>1. \A i \in 1 .. L + 1 : Flight[i] = Append(run, atom)[i]
    BY <1>1, <1>2, AppendProperties
  <2>2. {i \in 1 .. L + 1 : Flight[i][1] = s} =
        {i \in 1 .. L + 1 : Append(run, atom)[i][1] = s}
    BY <2>1
  <2> QED BY <2>2 DEF Before
<1>4. Before(Append(run, atom), L + 1, s) = Before(run, L, s) + 1
  BY <1>1, BeforeAppend
<1>5. atom[2] = Before(run, L, s) + 1 /\ atom[2] <= taken[s]
  BY <1>1, <1>2, <1>3, <1>4 DEF IInv, Numbered
<1>6. Before(run, L, s) = Queue!RunOf(s) /\ Before(run, L, s) \in Nat
  <2>1. Before(run, L, s) = Queue!RunOf(s)
    <3> DEFINE of(t) == {i \in 1 .. Len(run) : run[i][1] = t}
    <3>1. Queue!RunOf(s) = Cardinality(of(s))
      BY DEF Queue!RunOf, Queue!Cardinality, Cardinality
    <3>2. Before(run, L, s) = Cardinality(of(s))
      BY Zenon DEF Before
    <3> QED BY <3>1, <3>2
  <2>2. Before(run, L, s) \in Nat
    BY <1>1, BeforeAppend
  <2> QED BY <2>1, <2>2
<1>7. taken[s] \in Nat /\ Parsed(s) \in Nat /\ taken[s] <= Parsed(s)
  <2>1. read[s] \in Nat /\ taken[s] \in Nat /\ taken[s] <= Parsed(s)
    BY <1>1 DEF IInv, TypeOK
  <2>2. ParsedAt(s, read[s]) \in 0 .. MaxReqs
    BY <1>1, <2>1, ParsedBounds
  <2> QED BY <2>1, <2>2, WorkerAtomsAssumption DEF Parsed, ParsedAt
<1> QED BY <1>1, <1>5, <1>6, <1>7

\* Nothing but a read changes what is parsed, and nothing but RunAtom run.
LEMMA StepRefines ==
  ASSUME IInv, IInv', [Next]_vars
  PROVE  [Queue!Next]_Queue!vars
<1> DEFINE received == [s \in Sessions |-> Parsed(s)]
<1>1. ASSUME UNCHANGED <<read, run>>
      PROVE  UNCHANGED Queue!vars
  BY <1>1 DEF Queue!vars, Parsed
<1>2. ASSUME NEW s \in Sessions, ReadClient(s)
      PROVE  Queue!Receive(s) \/ UNCHANGED Queue!vars
  <2>1. run' = run
    BY <1>2 DEF ReadClient, threadVars
  <2>2. /\ read \in [Sessions -> Nat] /\ read' \in [Sessions -> Nat]
        /\ \A t \in Sessions \ {s} : read'[t] = read[t]
        /\ read[s] <= read'[s]
    <3>1. /\ read \in [Sessions -> Nat] /\ read' \in [Sessions -> Nat]
          /\ arrived[s] \in Nat /\ read[s] <= arrived[s]
      BY DEF IInv, TypeOK
    <3>2. read' = [read EXCEPT ![s] = Min({read[s] + ReadUnits, arrived[s]})]
      BY <1>2 DEF ReadClient
    <3>3. read[s] \in Nat /\ ReadUnits \in Nat
      BY <3>1, WorkerAtomsAssumption
    <3>4. Min({read[s] + ReadUnits, arrived[s]}) >= read[s]
      BY <3>1, <3>3, MinOfTwo
    <3> QED BY <3>1, <3>2, <3>4
  <2>3. /\ \A t \in Sessions \ {s} : Parsed(t)' = Parsed(t)
        /\ Parsed(s) <= Parsed(s)' /\ Parsed(s) \in Nat /\ Parsed(s)' \in Nat
    <3>1. \A t \in Sessions : /\ Parsed(t)' = ParsedAt(t, read'[t])
                              /\ Parsed(t) = ParsedAt(t, read[t])
      BY DEF Parsed, ParsedAt, GoodReqs
    <3>2. /\ ParsedAt(s, read[s]) <= ParsedAt(s, read'[s])
          /\ ParsedAt(s, read[s]) \in Nat /\ ParsedAt(s, read'[s]) \in Nat
      BY <2>2, ParsedBounds, WorkerAtomsAssumption
    <3> QED BY <2>2, <3>1, <3>2
  <2>4. received' = [received EXCEPT ![s] = received'[s]]
    BY <2>3
  <2>5. CASE Parsed(s)' = Parsed(s)
    <3>1. received' = received
      BY <2>3, <2>5
    <3> QED BY <2>1, <3>1 DEF Queue!vars
  <2>6. CASE Parsed(s)' # Parsed(s)
    <3>1. received'[s] > received[s]
      BY <2>3, <2>6
    <3> QED BY <2>1, <2>4, <3>1 DEF Queue!Receive
  <2> QED BY <2>5, <2>6
<1>3. ASSUME NEW raises \in BOOLEAN, RunAtom(raises)
      PROVE  Queue!Run(atom[1])
  <2>1. ipc = "started" /\ run' = Append(run, atom) /\ read' = read
    BY <1>3 DEF RunAtom, clientVars
  <2>2. received' = received
    BY <2>1 DEF Parsed
  <2> QED BY <2>1, <2>2, NextToRun DEF Queue!Run
<1>4. ASSUME NEW raises \in BOOLEAN, RunAtom(raises)
      PROVE  Queue!Next
  <2>1. atom[1] \in Sessions
    BY <1>4, NextToRun DEF RunAtom
  <2> QED BY <1>3, <1>4, <2>1 DEF Queue!Next
<1>5. ASSUME NEW s \in Sessions, ClientStep(s)
      PROVE  UNCHANGED <<read, run>>
  BY <1>5 DEF ClientStep, ClientSends, ClientCloses, threadVars
<1>6. CASE LoopStep
  <2>1. CASE \E s \in Sessions : ReadClient(s)
    BY <1>2, <2>1 DEF Queue!Next
  <2>2. CASE LoopTop \/ (\E s \in Sessions : LogRequest(s)) \/ SendRequest \/ Poll \/ WriteLog
    <3>1. UNCHANGED <<read, run>>
      BY <2>2 DEF LoopTop, LogRequest, SendRequest, Poll, WriteLog, clientVars, threadVars
    <3> QED BY <1>1, <3>1
  <2> QED BY <1>6, <2>1, <2>2 DEF LoopStep
<1>7. CASE ThreadStep
  <2>1. CASE StartAtom \/ FinishAtom
    <3>1. UNCHANGED <<read, run>>
      BY <2>1 DEF StartAtom, FinishAtom, clientVars
    <3> QED BY <1>1, <3>1
  <2> QED BY <1>4, <1>7, <2>1 DEF ThreadStep
<1>8. CASE MasterReads \/ UNCHANGED vars
  <2>1. UNCHANGED <<read, run>>
    BY <1>8 DEF MasterReads, vars, clientVars, threadVars
  <2> QED BY <1>1, <2>1
<1> QED BY <1>1, <1>5, <1>6, <1>7, <1>8 DEF Next

\* Every session's atoms are run once each and in the order they were sent
\* (runworker/mod.rs:109-122, pythread.rs:84-104): a worker implements the
\* abstract queue, for any sessions, cuts of requests and garbage.
THEOREM AtomsRunInOrder == Spec => ImplementsAtomQueue
<1>1. Init => Queue!Init
  <2>1. Init => \A s \in Sessions : Parsed(s) = 0
    BY ParsedBounds DEF Init, Parsed, ParsedAt
  <2> QED BY <2>1 DEF Init, Queue!Init
<1>2. IInv /\ IInv' /\ [Next]_vars => [Queue!Next]_Queue!vars
  BY StepRefines
<1> QED BY <1>1, <1>2, AtomsInvariance, PTL DEF Spec, ImplementsAtomQueue, Queue!Spec

-----------------------------------------------------------------------------
(* The log. *)

LogType == Seq([kind : Kinds, atom : Atoms])

\* q says of atom a that it is queueing, started or finished.
Says(q, kind, a) == \E j \in 1 .. Len(q) : q[j] = Message(kind, a)

\* An atom that is to start is queued, one that is in hand has started, and
\* none but that one has started without having finished.
LogInv ==
  /\ LogTellsOrder
  /\ \A i \in 1 .. Len(channel) : Says(log, "queueing", channel[i])
  /\ wpc = "send" => Says(log, "queueing", <<turn, taken[turn]>>)
  /\ ipc # "idle" => Says(log, "start", atom)
  /\ \A i \in 1 .. Len(log) : log[i].kind = "start" =>
       \/ \E j \in i + 1 .. Len(log) : log[j] = Message("finished", log[i].atom)
       \/ ipc # "idle" /\ log[i].atom = atom

\* A message more leaves what was said before as it was.
LEMMA LogLonger ==
  ASSUME NEW q \in LogType, NEW kind \in Kinds, NEW a \in Atoms
  PROVE  LET p == q \o <<Message(kind, a)>>
         IN  /\ Len(q) \in Nat /\ Len(p) = Len(q) + 1
             /\ \A i \in 1 .. Len(q) : p[i] = q[i]
             /\ p[Len(q) + 1] = Message(kind, a)
             /\ Says(p, kind, a)
             /\ \A k, b : Says(q, k, b) => Says(p, k, b)
<1> DEFINE m == Message(kind, a)
           p == q \o <<m>>
<1>1. m \in [kind : Kinds, atom : Atoms]
  BY DEF Message
<1>2. /\ Len(q) \in Nat /\ Len(p) = Len(q) + 1
      /\ \A i \in 1 .. Len(q) : p[i] = q[i]
      /\ p[Len(q) + 1] = m
  <2>1. p = Append(q, m)
    BY <1>1, AppendIsConcat DEF LogType
  <2> HIDE DEF m
  <2> QED BY <1>1, <2>1, AppendProperties, LenProperties DEF LogType
<1> HIDE DEF p
<1>3. Says(p, kind, a) /\ \A k, b : Says(q, k, b) => Says(p, k, b)
  BY <1>2 DEF Says
<1> QED BY <1>2, <1>3 DEF p

\* A message keeps the order if it starts what is queued while all that was
\* started is finished, or finishes what was started.
LEMMA OrderKept ==
  ASSUME LogTellsOrder, log \in LogType, NEW kind \in Kinds, NEW a \in Atoms,
         log' = log \o <<Message(kind, a)>>,
         kind = "start" =>
           /\ Says(log, "queueing", a)
           /\ \A i \in 1 .. Len(log) : log[i].kind = "start" =>
                \E j \in i + 1 .. Len(log) : log[j] = Message("finished", log[i].atom),
         kind = "finished" => Says(log, "start", a)
  PROVE  LogTellsOrder'
<1> DEFINE n == Len(log)
<1>1. /\ n \in Nat /\ Len(log') = n + 1
      /\ \A i \in 1 .. n : log'[i] = log[i]
      /\ log'[n + 1].kind = kind /\ log'[n + 1].atom = a
  BY LogLonger DEF Message
<1> HIDE DEF n
<1>2. ASSUME NEW i \in 1 .. n + 1, log'[i].kind = "start"
      PROVE  \E j \in 1 .. i - 1 : log'[j] = Message("queueing", log'[i].atom)
  <2>1. CASE i \in 1 .. n
    <3>1. \E j \in 1 .. i - 1 : log[j] = Message("queueing", log[i].atom)
      BY <1>1, <1>2, <2>1 DEF LogTellsOrder, n
    <3> QED BY <1>1, <2>1, <3>1
  <2>2. CASE i = n + 1
    <3>1. \E j \in 1 .. n : log[j] = Message("queueing", a)
      BY <1>1, <1>2, <2>2 DEF Says, n
    <3> QED BY <1>1, <2>2, <3>1
  <2>3. i \in 1 .. n \/ i = n + 1
    BY <1>1
  <2> QED BY <2>1, <2>2, <2>3
<1>3. ASSUME NEW i \in 1 .. n + 1, log'[i].kind = "finished"
      PROVE  \E j \in 1 .. i - 1 : log'[j] = Message("start", log'[i].atom)
  <2>1. CASE i \in 1 .. n
    <3>1. \E j \in 1 .. i - 1 : log[j] = Message("start", log[i].atom)
      BY <1>1, <1>3, <2>1 DEF LogTellsOrder, n
    <3> QED BY <1>1, <2>1, <3>1
  <2>2. CASE i = n + 1
    <3>1. \E j \in 1 .. n : log[j] = Message("start", a)
      BY <1>1, <1>3, <2>2 DEF Says, n
    <3> QED BY <1>1, <2>2, <3>1
  <2>3. i \in 1 .. n \/ i = n + 1
    BY <1>1
  <2> QED BY <2>1, <2>2, <2>3
<1>4. ASSUME NEW i \in 1 .. n + 1, NEW k \in 1 .. n + 1,
             i < k, log'[i].kind = "start", log'[k].kind = "start"
      PROVE  \E j \in i + 1 .. k - 1 : log'[j] = Message("finished", log'[i].atom)
  <2>1. CASE k \in 1 .. n
    <3>1. \E j \in i + 1 .. k - 1 : log[j] = Message("finished", log[i].atom)
      BY <1>1, <1>4, <2>1 DEF LogTellsOrder, n
    <3> QED BY <1>1, <1>4, <2>1, <3>1
  <2>2. CASE k = n + 1
    <3>1. \E j \in i + 1 .. n : log[j] = Message("finished", log[i].atom)
      BY <1>1, <1>4, <2>2 DEF n
    <3> QED BY <1>1, <1>4, <2>2, <3>1
  <2>3. k \in 1 .. n \/ k = n + 1
    BY <1>1
  <2> QED BY <2>1, <2>2, <2>3
<1> QED BY <1>1, <1>2, <1>3, <1>4 DEF LogTellsOrder

\* Every step keeps the log in order with what is queued and in hand.
LEMMA LogStepInv ==
  ASSUME IInv, LogInv, [Next]_vars
  PROVE  LogInv'
<1>1. log \in LogType /\ Len(log) \in Nat /\ channel \in Seq(Atoms)
  BY LenProperties DEF IInv, TypeOK, LogType
<1>2. CASE UNCHANGED <<log, channel, atom, ipc, taken, turn>> /\ (wpc' = "send" => wpc = "send")
  BY <1>2 DEF LogInv, LogTellsOrder, Says
<1>3. ASSUME NEW s \in Sessions, LogRequest(s)
      PROVE  LogInv'
  <2> DEFINE a == <<s, taken[s] + 1>>
  <2>1. a \in Atoms /\ turn' = s /\ taken'[s] = taken[s] + 1
    <3>1. IInv' /\ turn' = s /\ wpc' = "send" /\ taken'[s] = taken[s] + 1
      BY <1>3, LogRequestInv DEF LogRequest, IInv, TypeOK
    <3> QED BY <3>1 DEF IInv, InHand
  <2>2. log' = log \o <<Message("queueing", a)>> /\ UNCHANGED threadVars
    BY <1>3 DEF LogRequest, Logs, Queueing
  <2> HIDE DEF a
  <2>3. LogTellsOrder'
    BY <1>1, <2>1, <2>2, OrderKept DEF LogInv, Kinds
  <2>4. /\ Len(log') = Len(log) + 1 /\ \A i \in 1 .. Len(log) : log'[i] = log[i]
        /\ log'[Len(log) + 1].kind = "queueing" /\ Says(log', "queueing", a)
        /\ \A k, b : Says(log, k, b) => Says(log', k, b)
    BY <1>1, <2>1, <2>2, LogLonger DEF Kinds, Message
  <2>5. <<turn', taken'[turn']>> = a
    BY <2>1 DEF a
  <2>6. UNCHANGED <<channel, ipc, atom>>
    BY <2>2 DEF threadVars
  <2>7. \A i \in 1 .. Len(channel') : Says(log', "queueing", channel'[i])
    BY <2>4, <2>6 DEF LogInv
  <2>8. ipc' # "idle" => Says(log', "start", atom')
    BY <2>4, <2>6 DEF LogInv
  <2>9. \A i \in 1 .. Len(log') : log'[i].kind = "start" =>
          \/ \E j \in i + 1 .. Len(log') : log'[j] = Message("finished", log'[i].atom)
          \/ ipc' # "idle" /\ log'[i].atom = atom'
    BY <1>1, <2>4, <2>6 DEF LogInv
  <2> QED BY <2>3, <2>4, <2>5, <2>7, <2>8, <2>9 DEF LogInv
<1>4. CASE SendRequest
  <2> DEFINE a == <<turn, taken[turn]>>
  <2>1. /\ a \in Atoms /\ channel' = Append(channel, a) /\ Says(log, "queueing", a)
        /\ wpc' = "drain" /\ log' = log /\ ipc' = ipc /\ atom' = atom
    BY <1>4 DEF SendRequest, Sent, IInv, InHand, LogInv, logVars
  <2>2. \A i \in 1 .. Len(channel') : Says(log, "queueing", channel'[i])
    <3> HIDE DEF a
    <3> QED BY <1>1, <2>1, AppendProperties, LenProperties DEF LogInv
  <2> QED BY <2>1, <2>2 DEF LogInv, LogTellsOrder, Says
<1>5. CASE StartAtom
  <2> DEFINE a == Head(channel)
  <2>1. /\ a \in Atoms /\ channel # <<>> /\ Says(log, "queueing", a)
        /\ \A i \in 1 .. Len(channel') : Says(log, "queueing", channel'[i])
    <3>1. /\ channel # <<>> /\ channel' = Tail(channel) /\ a = channel[1]
          /\ Len(channel) \in Nat \ {0}
      BY <1>1, <1>5, EmptySeq DEF StartAtom
    <3>2. /\ a \in Atoms /\ Len(channel') = Len(channel) - 1
          /\ \A i \in 1 .. Len(channel') : channel'[i] = channel[i + 1]
      BY <1>1, <3>1, HeadTailProperties
    <3> QED BY <3>1, <3>2 DEF LogInv
  <2>2. /\ ipc = "idle" /\ ipc' = "started" /\ atom' = a
        /\ log' = log \o <<Message("start", a)>> /\ UNCHANGED <<clientVars, loopVars>>
    BY <1>5 DEF StartAtom, Logs
  <2> HIDE DEF a
  <2>3. \A i \in 1 .. Len(log) : log[i].kind = "start" =>
          \E j \in i + 1 .. Len(log) : log[j] = Message("finished", log[i].atom)
    BY <2>2 DEF LogInv
  <2>4. LogTellsOrder'
    BY <1>1, <2>1, <2>2, <2>3, OrderKept DEF LogInv, Kinds
  <2>5. /\ Len(log') = Len(log) + 1 /\ \A i \in 1 .. Len(log) : log'[i] = log[i]
        /\ log'[Len(log) + 1].atom = a /\ Says(log', "start", a)
        /\ \A k, b : Says(log, k, b) => Says(log', k, b)
    BY <1>1, <2>1, <2>2, LogLonger DEF Kinds, Message
  <2> QED BY <1>1, <2>1, <2>2, <2>3, <2>4, <2>5 DEF LogInv, clientVars, loopVars
<1>6. ASSUME NEW raises \in BOOLEAN, RunAtom(raises)
      PROVE  LogInv'
  <2>1. /\ atom \in Atoms /\ atom' = atom /\ ipc = "started" /\ ipc' = "ran"
        /\ UNCHANGED <<channel, clientVars, loopVars>>
    BY <1>6 DEF RunAtom, IInv, InHand
  <2>2. CASE raises
    <3>1. log' = log \o <<Message("error", atom)>>
      BY <1>6, <2>2 DEF RunAtom, Logs
    <3>2. LogTellsOrder'
      BY <1>1, <2>1, <3>1, OrderKept DEF LogInv, Kinds
    <3>3. /\ Len(log') = Len(log) + 1 /\ \A i \in 1 .. Len(log) : log'[i] = log[i]
          /\ log'[Len(log) + 1].kind = "error"
          /\ \A k, b : Says(log, k, b) => Says(log', k, b)
      <4>1. /\ Len(log') = Len(log) + 1 /\ \A i \in 1 .. Len(log) : log'[i] = log[i]
            /\ log'[Len(log) + 1] = Message("error", atom)
            /\ \A k, b : Says(log, k, b) => Says(log', k, b)
        BY <1>1, <2>1, <3>1, LogLonger DEF Kinds
      <4> QED BY <4>1 DEF Message
    <3> QED BY <1>1, <2>1, <3>2, <3>3 DEF LogInv, clientVars, loopVars
  <2>3. CASE ~raises
    <3>1. log' = log
      BY <1>1, <1>6, <2>3, ConcatEmptySeq DEF RunAtom, Logs, LogType
    <3> QED BY <2>1, <3>1 DEF LogInv, LogTellsOrder, Says, clientVars, loopVars
  <2> QED BY <2>2, <2>3
<1>7. CASE FinishAtom
  <2>1. /\ atom \in Atoms /\ ipc = "ran" /\ ipc' = "idle"
        /\ log' = log \o <<Message("finished", atom)>>
        /\ UNCHANGED <<channel, clientVars, loopVars>>
    BY <1>7 DEF FinishAtom, IInv, InHand, Logs
  <2>2. LogTellsOrder'
    BY <1>1, <2>1, OrderKept DEF LogInv, Kinds
  <2>3. /\ Len(log') = Len(log) + 1 /\ \A i \in 1 .. Len(log) : log'[i] = log[i]
        /\ log'[Len(log) + 1] = Message("finished", atom)
        /\ log'[Len(log) + 1].kind = "finished"
        /\ \A k, b : Says(log, k, b) => Says(log', k, b)
    BY <1>1, <2>1, LogLonger DEF Kinds, Message
  <2>4. \A i \in 1 .. Len(log') : log'[i].kind = "start" =>
          \E j \in i + 1 .. Len(log') : log'[j] = Message("finished", log'[i].atom)
    <3> SUFFICES ASSUME NEW i \in 1 .. Len(log'), log'[i].kind = "start"
                 PROVE  \E j \in i + 1 .. Len(log') :
                          log'[j] = Message("finished", log'[i].atom)
      OBVIOUS
    <3>1. Len(log) \in Nat
      BY <1>1, LenProperties DEF LogType
    <3>2. i \in 1 .. Len(log) /\ log'[i] = log[i]
      BY <2>3, <3>1
    <3>3. CASE \E j \in i + 1 .. Len(log) : log[j] = Message("finished", log[i].atom)
      <4>1. PICK j \in i + 1 .. Len(log) : log[j] = Message("finished", log[i].atom)
        BY <3>3
      <4>2. j \in i + 1 .. Len(log') /\ log'[j] = log[j]
        BY <2>3, <3>1, <3>2, <4>1
      <4> QED BY <3>2, <4>1, <4>2
    <3>4. CASE log[i].atom = atom
      <4>1. Len(log) + 1 \in i + 1 .. Len(log')
        BY <2>3, <3>1, <3>2
      <4> QED BY <2>3, <3>2, <3>4, <4>1
    <3> QED BY <3>2, <3>3, <3>4 DEF LogInv
  <2>5. /\ \A i \in 1 .. Len(channel') : Says(log', "queueing", channel'[i])
        /\ wpc' = "send" => Says(log', "queueing", <<turn, taken[turn]>>')
    BY <2>1, <2>3 DEF LogInv, clientVars, loopVars
  <2> QED BY <2>1, <2>2, <2>4, <2>5 DEF LogInv
<1>8. ASSUME NEW s \in Sessions, ClientStep(s) \/ ReadClient(s)
      PROVE  LogInv'
  <2>1. UNCHANGED <<log, channel, atom, ipc, taken, turn>> /\ (wpc' = "send" => wpc = "send")
    BY <1>8
    DEF ClientStep, ClientSends, ClientCloses, ReadClient, threadVars, logVars
  <2> QED BY <1>2, <2>1
<1>9. CASE LoopTop \/ Poll \/ WriteLog \/ MasterReads \/ UNCHANGED vars
  <2>1. UNCHANGED <<log, channel, atom, ipc, taken, turn>> /\ (wpc' = "send" => wpc = "send")
    BY <1>9
    DEF LoopTop, Poll, WriteLog, MasterReads, vars, clientVars, loopVars, threadVars, logVars
  <2> QED BY <1>2, <2>1
<1> QED BY <1>3, <1>4, <1>5, <1>6, <1>7, <1>8, <1>9 DEF Next, LoopStep, ThreadStep

\* The log tells one story of each atom, though the loop and the thread write
\* it side by side (runworker/mod.rs:109-122, pythread.rs:42-61).
THEOREM LogInOrder == Spec => []LogTellsOrder
<1>1. Init => LogInv
  <2> SUFFICES ASSUME Init PROVE LogInv
    OBVIOUS
  <2>1. Len(log) = 0 /\ Len(channel) = 0 /\ wpc = "top" /\ ipc = "idle"
    BY EmptySeq DEF Init
  <2> QED BY <2>1 DEF LogInv, LogTellsOrder
<1>2. IInv /\ LogInv /\ [Next]_vars => LogInv'
  BY LogStepInv
<1>3. LogInv => LogTellsOrder
  BY DEF LogInv
<1> QED BY <1>1, <1>2, <1>3, AtomsInvariance, PTL DEF Spec
=============================================================================
