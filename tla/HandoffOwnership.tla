-------------------------- MODULE HandoffOwnership --------------------------
(***************************************************************************)
(* Theorems about Handoff: no connection is ever handed over twice, and    *)
(* the sockets, queues and loops implement the abstract pool of sessions.  *)
(*                                                                         *)
(* OneOwner is not inductive.  That master queues a client once rests on   *)
(* bytes_read: a client whose request has been queued has all its 8 bytes  *)
(* counted, and only a read that takes new bytes queues one.  That a       *)
(* worker decides once rests on the position it has served new_msgs up to. *)
(***************************************************************************)
EXTENDS HandoffProofs, MCHandoff

\* No value occurs twice.
Distinct(s) == \A i, j \in 1 .. Len(s) : s[i] = s[j] => i = j

\* Does c occur in the sequence s?
Occurs(c, s) == \E i \in 1 .. Len(s) : s[i] = c

\* Has master queued c's request, now or at any time before?
Requested(c) ==
  Occurs(c, newRequests) \/ \E w \in Workers : Occurs(c, chan[w].fds)

\* Requests are queued once, and only for a complete header.
OwnInv ==
  /\ Distinct(newRequests)
  /\ OneOwner
  /\ \A c \in Clients : /\ bytesRead[c] <= arrived[c]
                        /\ Requested(c) => bytesRead[c] = HeaderSize

Issued(c) == session[c] \in {"greeting", "open", "closed"}

\* What a worker has decided it decided on a connection it was given, and an
\* event of a client's stream is one of a client with a session.
SessionInv ==
  /\ \A w \in Workers : served[w] <= Len(chan[w].taken)
  /\ \A c \in Clients : session[c] # "none" =>
       \E w \in Workers : \E i \in 1 .. served[w] : chan[w].fds[i] = c
  /\ \A w \in Workers, c \in Clients :
       ClientTk(c) \in wready[w] \cup wreadable[w] \cup wwritable[w] => Issued(c)

-----------------------------------------------------------------------------
(* Steps that leave requests and ownership alone *)

\* A write moves counts along what was put into the socket.
LEMMA WriteKeeps ==
  ASSUME NEW s \in FdStreamType(Clients), NEW n
  PROVE  Write(s, n).fds = s.fds /\ Write(s, n).taken = s.taken
  BY DEF FdStreamType, Write

\* So does a read, and what is taken is appended to what has been.
LEMMA ReadKeeps ==
  ASSUME NEW s \in FdStreamType(Clients), NEW n, NEW k, NEW b
  PROVE  /\ TakeOne(Receive(s, n, k, b)).fds = s.fds
         /\ \/ TakeOne(Receive(s, n, k, b)).taken = s.taken
            \/ Len(TakeOne(Receive(s, n, k, b)).taken) = Len(s.taken) + 1
<1> DEFINE r == Receive(s, n, k, b)
<1>1. /\ r.fds = s.fds /\ r.taken = s.taken
      /\ {"fds", "taken"} \subseteq DOMAIN r
  BY DEF FdStreamType, Receive
<1> HIDE DEF r
<1>2. TakeOne(r).fds = r.fds
  BY <1>1 DEF TakeOne
<1>3. TakeOne(r).taken = r.taken \/ Len(TakeOne(r).taken) = Len(r.taken) + 1
  <2>1. Fields(Clients, s)
    BY FieldTypes
  <2>2. \A p : Len(Append(r.taken, p)) = Len(r.taken) + 1
    BY <1>1, <2>1 DEF Fields
  <2>3. TakeOne(r).taken = r.taken \/ \E p : TakeOne(r).taken = Append(r.taken, p)
    BY <1>1 DEF TakeOne
  <2> QED BY <2>2, <2>3
<1> QED BY <1>1, <1>2, <1>3 DEF r

\* The types of the counts that ownership rests on.
LEMMA Counts ==
  ASSUME IInv
  PROVE  /\ arrived \in [Clients -> 0 .. HeaderSize]
         /\ bytesRead \in [Clients -> 0 .. HeaderSize]
         /\ chan \in [Workers -> FdStreamType(Clients)]
         /\ \A c \in Clients : arrived[c] \in Nat /\ bytesRead[c] \in Nat
<1>1. /\ arrived \in [Clients -> 0 .. HeaderSize]
      /\ bytesRead \in [Clients -> 0 .. HeaderSize]
      /\ chan \in [Workers -> FdStreamType(Clients)]
  BY DEF IInv, TypeOK, ClientsTypeOK, MasterTypeOK
<1> QED BY <1>1 DEF HeaderSize

\* Nothing is requested and nothing is handed over.
Quiet ==
  /\ UNCHANGED <<newRequests, bytesRead>>
  /\ \A w \in Workers : chan'[w].fds = chan[w].fds
  /\ \A c \in Clients : arrived[c] <= arrived'[c]

\* Requests are queued by a read of master's and handed over at the head of
\* its loop, and by nothing else (runmaster/mod.rs).
LEMMA QuietSteps ==
  ASSUME IInv, [Next]_vars
  PROVE  Quiet \/ MasterLoopHead \/ \E c \in Clients : MasterReadClient(c)
<1> USE DEF IInv, TypeOK, clientVars, masterVars, workerVars, logVars
<1>t. /\ arrived \in [Clients -> 0 .. HeaderSize]
      /\ \A c \in Clients : arrived[c] \in Nat
      /\ chan \in [Workers -> FdStreamType(Clients)]
  BY Counts
<1>1. ASSUME NEW c \in Clients, ClientStep(c)
      PROVE  Quiet
  <2>1. newRequests' = newRequests /\ bytesRead' = bytesRead /\ chan' = chan
    BY <1>1 DEF ClientStep, ClientConnect, HelloArrives, ClientEstablished,
                ClientCloses, ClientLearnsClose
  <2>2. \A d \in Clients : arrived[d] <= arrived'[d]
    <3>1. CASE arrived' = arrived
      BY <1>t, <3>1
    <3>2. CASE \E n \in HelloCuts \cup {HeaderSize} : HelloArrives(c, n)
      <4>1. PICK n \in HelloCuts \cup {HeaderSize} : HelloArrives(c, n)
        BY <3>2
      <4>2. n > arrived[c] /\ n \in Nat /\ arrived' = [arrived EXCEPT ![c] = n]
        <5>1. HelloCuts \subseteq 1 .. HeaderSize - 1
          BY HandoffAssumption
        <5>2. n \in Nat
          BY <5>1 DEF HeaderSize
        <5> QED BY <4>1, <5>2 DEF HelloArrives
      <4> QED BY <4>2, <1>t
    <3> QED BY <1>1, <3>1, <3>2
            DEF ClientStep, ClientConnect, ClientEstablished, ClientCloses,
                ClientLearnsClose
  <2> QED BY <2>1, <2>2 DEF Quiet
<1>2. CASE MasterPoll \/ MasterAcceptClient \/ MasterAcceptWorker
  BY <1>2, <1>t DEF MasterPoll, MasterAcceptClient, MasterAcceptWorker, Quiet
<1>3. ASSUME NEW w \in Workers, MasterWorkerStream(w)
      PROVE  Quiet
  <2>1. \A v \in Workers : chan'[v].fds = chan[v].fds
    BY <1>3, <1>t, WriteKeeps DEF MasterWorkerStream
  <2> QED BY <1>3, <1>t, <2>1 DEF MasterWorkerStream, Quiet
<1>4. ASSUME NEW w \in Workers, WorkerStep(w)
      PROVE  Quiet
  <2>1. arrived' = arrived /\ newRequests' = newRequests /\ bytesRead' = bytesRead
    BY <1>4 DEF WorkerStep, WorkerStart, WorkerLoopHead, WorkerPoll, WorkerStream,
                WorkerStreamEnds, WorkerClientEvent, WorkerCrash
  <2>2. \A v \in Workers : chan'[v].fds = chan[v].fds
    <3>1. CASE chan' = chan
      BY <3>1
    <3>2. CASE WorkerStream(w)
      BY <3>2, <1>t, ReadKeeps DEF WorkerStream
    <3> QED BY <1>4, <3>1, <3>2
            DEF WorkerStep, WorkerStart, WorkerLoopHead, WorkerPoll,
                WorkerStreamEnds, WorkerClientEvent, WorkerCrash
  <2> QED BY <2>1, <2>2, <1>t DEF Quiet
<1>5. CASE UNCHANGED vars
  BY <1>5, <1>t DEF vars, Quiet
<1> QED BY <1>1, <1>2, <1>3, <1>4, <1>5 DEF Next, MasterStep

-----------------------------------------------------------------------------
(* Requests are handed over once *)

\* What dispatch does to the requests and to one socket: a prefix of the
\* requests is appended to the descriptors of the stream whose turn it is.
LEMMA DispatchMoves ==
  ASSUME IInv, MasterLoopHead, pool # <<>>
  PROVE  \E v \in Workers : \E a \in Seq(Clients) :
           /\ v = pool[NextSend + 1]
           /\ a = Accepted(chan[v], newRequests)
           /\ Len(a) <= Len(newRequests)
           /\ \A i \in 1 .. Len(a) : a[i] = newRequests[i]
           /\ chan' = [chan EXCEPT ![v] = Dispatch(chan[v], newRequests)]
           /\ chan'[v].fds = chan[v].fds \o a
           /\ \A w \in Workers \ {v} : chan'[w] = chan[w]
           /\ newRequests' = <<>>
<1> USE DEF IInv, TypeOK
<1> DEFINE v == pool[NextSend + 1]
           a == Accepted(chan[v], newRequests)
<1>1. pool \in Seq(Workers) /\ lastSend \in Nat /\ newRequests \in Seq(Clients)
  BY DEF MasterTypeOK
<1>2. Len(pool) \in Nat \ {0}
  BY <1>1, EmptySeq
<1>3. NextSend + 1 \in 1 .. Len(pool)
  BY <1>1, <1>2 DEF NextSend
<1>4. v \in Workers
  BY <1>1, <1>3, ElementOfSeq
<1>5. Dispatched = [chan EXCEPT ![v] = Dispatch(chan[v], newRequests)]
  BY DEF Dispatched
<1> HIDE DEF v
<1>6. chan[v] \in FdStreamType(Clients)
  BY <1>4
<1>7. a \in Seq(Clients)
  BY <1>1, <1>6, AcceptedType
<1>8. Len(a) <= Len(newRequests) /\ \A i \in 1 .. Len(a) : a[i] = newRequests[i]
  <2> DEFINE m == IF Len(newRequests) < Room(chan[v]) THEN Len(newRequests)
                                                      ELSE Room(chan[v])
  <2>1. Len(newRequests) \in Nat
    BY <1>1, LenProperties
  <2>2. Room(chan[v]) \in Int
    BY FdQueueSizeAssumption, <1>6, FieldTypes DEF Fields, Room
  <2>3. m \in Int /\ m <= Len(newRequests)
    BY <2>1, <2>2
  <2>4. a = SubSeq(newRequests, 1, m)
    BY DEF Accepted
  <2> HIDE DEF m, a
  <2>5. \A i \in 1 .. m : newRequests[i] \in Clients
    BY <1>1, <2>3, LenProperties, ElementOfSeq
  <2>6. /\ Len(a) = (IF 1 <= m THEN m - 1 + 1 ELSE 0)
        /\ \A i \in 1 .. m - 1 + 1 : a[i] = newRequests[1 + i - 1]
    BY <2>3, <2>4, <2>5, SubSeqProperties
  <2> QED BY <2>1, <2>3, <2>6
<1>9. Dispatch(chan[v], newRequests).fds = chan[v].fds \o a
  BY <1>6 DEF Dispatch, FdStreamType
<1>10. chan' = Dispatched /\ newRequests' = <<>>
  BY DEF MasterLoopHead, Remaining
<1> HIDE DEF a
<1>11. /\ chan' = [chan EXCEPT ![v] = Dispatch(chan[v], newRequests)]
       /\ chan'[v].fds = chan[v].fds \o a
       /\ \A w \in Workers \ {v} : chan'[w] = chan[w]
  BY <1>4, <1>5, <1>9, <1>10
<1> QED BY <1>4, <1>7, <1>8, <1>10, <1>11 DEF v, a

\* Init establishes the invariant.
LEMMA InitOwn == Init => OwnInv
  BY EmptySeq DEF Init, OwnInv, Distinct, Occurs, Requested, OneOwner, NewStream, HeaderSize

\* A read queues a client only when it completes the header, so only once.
LEMMA ReadOwn ==
  ASSUME IInv, OwnInv, NEW c \in Clients, MasterReadClient(c)
  PROVE  OwnInv'
<1> USE DEF IInv, TypeOK
<1> DEFINE done == arrived[c] > bytesRead[c] /\ arrived[c] = HeaderSize
<1>1. /\ newRequests' = IF done THEN Append(newRequests, c) ELSE newRequests
      /\ bytesRead' = [bytesRead EXCEPT ![c] = arrived[c]]
      /\ arrived' = arrived /\ chan' = chan
  BY DEF MasterReadClient, BytesNow, clientVars
<1>2. /\ newRequests \in Seq(Clients) /\ Len(newRequests) \in Nat
      /\ arrived \in [Clients -> 0 .. HeaderSize]
      /\ bytesRead \in [Clients -> 0 .. HeaderSize]
  BY LenProperties DEF MasterTypeOK, ClientsTypeOK
<1>3. done => ~Requested(c)
  BY <1>2 DEF OwnInv, HeaderSize
<1>4. ASSUME done
      PROVE  /\ Len(newRequests') = Len(newRequests) + 1
             /\ newRequests'[Len(newRequests) + 1] = c
             /\ \A i \in 1 .. Len(newRequests) : newRequests'[i] = newRequests[i]
  BY <1>1, <1>2, <1>4, AppendProperties
<1>5. Distinct(newRequests')
  <2>1. done => \A i \in 1 .. Len(newRequests) : newRequests[i] # c
    BY <1>3 DEF Requested, Occurs
  <2> QED BY <1>1, <1>2, <1>4, <2>1 DEF OwnInv, Distinct
<1>6. OneOwner'
  <2>1. ASSUME NEW w \in Workers, NEW i \in 1 .. Len(chan[w].fds),
               NEW j \in 1 .. Len(newRequests')
        PROVE  chan[w].fds[i] # newRequests'[j]
    <3>1. CASE j \in 1 .. Len(newRequests) /\ newRequests'[j] = newRequests[j]
      BY <3>1 DEF OwnInv, OneOwner
    <3>2. CASE done /\ newRequests'[j] = c
      BY <1>3, <3>2 DEF Requested, Occurs
    <3> QED BY <1>1, <1>2, <1>4, <3>1, <3>2
  <2> QED BY <1>1, <2>1 DEF OwnInv, OneOwner
<1>7. ASSUME NEW d \in Clients
      PROVE  /\ bytesRead'[d] <= arrived'[d]
             /\ Requested(d)' => bytesRead'[d] = HeaderSize
  <2>1. Requested(d)' => Requested(d) \/ (done /\ d = c)
    BY <1>1, <1>2, <1>4 DEF Requested, Occurs
  <2> QED BY <1>1, <1>2, <2>1 DEF OwnInv, HeaderSize
<1> QED BY <1>5, <1>6, <1>7 DEF OwnInv

\* Two positions at the same distance from a third are one.
LEMMA SameDistance ==
  ASSUME NEW i \in Int, NEW j \in Int, NEW m \in Int, i - m = j - m
  PROVE  i = j
OBVIOUS

\* The head of the loop moves requests to one socket and forgets the rest.
LEMMA HeadOwn ==
  ASSUME IInv, OwnInv, MasterLoopHead
  PROVE  OwnInv'
<1> USE DEF IInv, TypeOK
<1>1. bytesRead' = bytesRead /\ arrived' = arrived
  BY DEF MasterLoopHead, clientVars
<1>2. CASE pool = <<>>
  <2>1. chan' = chan /\ newRequests' = newRequests
    BY <1>2 DEF MasterLoopHead, Dispatched, Remaining
  <2> QED BY <1>1, <2>1 DEF OwnInv, OneOwner, Requested
<1>3. CASE pool # <<>>
  <2>1. PICK v \in Workers, a \in Seq(Clients) :
          /\ Len(a) <= Len(newRequests)
          /\ \A i \in 1 .. Len(a) : a[i] = newRequests[i]
          /\ chan'[v].fds = chan[v].fds \o a
          /\ \A w \in Workers \ {v} : chan'[w] = chan[w]
          /\ newRequests' = <<>>
    BY <1>3, DispatchMoves
  <2>2. newRequests \in Seq(Clients) /\ Len(newRequests) \in Nat /\ Len(a) \in Nat
    BY LenProperties DEF MasterTypeOK
  <2>3. \A w \in Workers : chan[w].fds \in Seq(Clients) /\ Len(chan[w].fds) \in Nat
    BY FieldTypes DEF Fields
  <2> DEFINE m == Len(chan[v].fds)
  <2>4. /\ Len(chan'[v].fds) = m + Len(a)
        /\ \A i \in 1 .. m : chan'[v].fds[i] = chan[v].fds[i]
        /\ \A i \in m + 1 .. m + Len(a) :
             i - m \in 1 .. Len(newRequests) /\ chan'[v].fds[i] = newRequests[i - m]
    BY <2>1, <2>2, <2>3, ConcatProperties
  <2>5. Distinct(newRequests') /\ Len(newRequests') = 0
    BY <2>1 DEF Distinct
  <2>6. m \in Nat /\ m = Len(chan[v].fds)
    BY <2>3
  <2> HIDE DEF m
  <2> DEFINE Old(w, i) == i \in 1 .. Len(chan[w].fds) /\ chan'[w].fds[i] = chan[w].fds[i]
             New(w, i) == /\ w = v /\ i - m \in 1 .. Len(newRequests)
                          /\ chan'[w].fds[i] = newRequests[i - m] /\ i \in Int
  <2>7. ASSUME NEW w \in Workers, NEW i \in 1 .. Len(chan'[w].fds)
        PROVE  Old(w, i) \/ New(w, i)
    <3>1. CASE w # v
      <4>1. chan'[w] = chan[w]
        BY <2>1, <3>1
      <4> QED BY <4>1
    <3>2. CASE w = v /\ i <= m
      <4>1. i \in 1 .. m
        BY <2>6, <3>2
      <4> QED BY <2>4, <2>6, <3>2, <4>1
    <3>3. CASE w = v /\ i > m
      <4>1. i \in m + 1 .. m + Len(a)
        BY <2>2, <2>4, <2>6, <3>3
      <4> QED BY <2>4, <3>3, <4>1
    <3> QED BY <2>6, <3>1, <3>2, <3>3
  <2>8. OneOwner'
    <3>1. ASSUME NEW u \in Workers, NEW w \in Workers,
                 NEW i \in 1 .. Len(chan'[u].fds), NEW j \in 1 .. Len(chan'[w].fds),
                 chan'[u].fds[i] = chan'[w].fds[j]
          PROVE  u = w /\ i = j
      <4>1. CASE Old(u, i) /\ Old(w, j)
        <5>1. chan[u].fds[i] = chan[w].fds[j]
          BY <3>1, <4>1
        <5>2. i \in 1 .. Len(chan[u].fds) /\ j \in 1 .. Len(chan[w].fds)
          BY <4>1
        <5> QED BY <5>1, <5>2 DEF OwnInv, OneOwner
      <4>2. ASSUME NEW q \in Workers, NEW r \in Workers, NEW k, NEW l,
                   Old(q, k), New(r, l)
            PROVE  chan'[q].fds[k] # chan'[r].fds[l]
        <5>1. chan[q].fds[k] # newRequests[l - m]
          BY <4>2 DEF OwnInv, OneOwner
        <5> QED BY <4>2, <5>1
      <4>3. CASE (Old(u, i) /\ New(w, j)) \/ (New(u, i) /\ Old(w, j))
        BY <3>1, <4>2, <4>3
      <4>4. CASE New(u, i) /\ New(w, j)
        <5>1. i - m = j - m
          BY <3>1, <4>4 DEF OwnInv, Distinct
        <5>2. i \in Int /\ j \in Int /\ u = w
          BY <4>4
        <5>3. m \in Int
          BY <2>6
        <5> QED BY <5>1, <5>2, <5>3, SameDistance
      <4>5. (Old(u, i) \/ New(u, i)) /\ (Old(w, j) \/ New(w, j))
        BY <2>7
      <4> HIDE DEF Old, New
      <4> QED BY <4>1, <4>3, <4>4, <4>5
    <3> QED BY <2>5, <3>1 DEF OneOwner
  <2>9. ASSUME NEW d \in Clients, Requested(d)'
        PROVE  Requested(d)
    <3>1. PICK w \in Workers : \E i \in 1 .. Len(chan'[w].fds) : chan'[w].fds[i] = d
      BY <2>5, <2>9 DEF Requested, Occurs
    <3> PICK i \in 1 .. Len(chan'[w].fds) : chan'[w].fds[i] = d
      BY <3>1
    <3>2. CASE Old(w, i)
      BY <3>2 DEF Requested, Occurs
    <3>3. CASE New(w, i)
      BY <3>3 DEF Requested, Occurs
    <3> QED BY <2>7, <3>2, <3>3
  <2> QED BY <1>1, <2>5, <2>8, <2>9 DEF OwnInv
<1> QED BY <1>2, <1>3

\* A quiet step keeps it because what it is about does not change.
LEMMA QuietOwn ==
  ASSUME IInv, IInv', OwnInv, Quiet
  PROVE  OwnInv'
<1>1. \A c \in Clients : /\ bytesRead[c] \in Nat /\ arrived[c] \in Nat
                         /\ arrived'[c] \in Nat
  <2>1. \A c \in Clients : arrived'[c] \in 0 .. HeaderSize
    BY DEF IInv, TypeOK, ClientsTypeOK
  <2> QED BY <2>1, Counts DEF HeaderSize
<1>2. \A c \in Clients : Requested(c)' => Requested(c)
  BY DEF Quiet, Requested
<1>3. OneOwner'
  <2>1. newRequests' = newRequests /\ \A w \in Workers : chan'[w].fds = chan[w].fds
    BY DEF Quiet
  <2>2. ASSUME NEW v \in Workers, NEW w \in Workers,
               NEW i \in 1 .. Len(chan'[v].fds), NEW j \in 1 .. Len(chan'[w].fds),
               chan'[v].fds[i] = chan'[w].fds[j]
        PROVE  v = w /\ i = j
    <3>1. /\ i \in 1 .. Len(chan[v].fds) /\ j \in 1 .. Len(chan[w].fds)
          /\ chan[v].fds[i] = chan[w].fds[j]
      BY <2>1, <2>2
    <3> QED BY <3>1 DEF OwnInv, OneOwner
  <2>3. ASSUME NEW w \in Workers, NEW i \in 1 .. Len(chan'[w].fds),
               NEW j \in 1 .. Len(newRequests')
        PROVE  chan'[w].fds[i] # newRequests'[j]
    <3>1. /\ i \in 1 .. Len(chan[w].fds) /\ chan'[w].fds[i] = chan[w].fds[i]
          /\ j \in 1 .. Len(newRequests) /\ newRequests'[j] = newRequests[j]
      BY <2>1
    <3> QED BY <3>1 DEF OwnInv, OneOwner
  <2> QED BY <2>2, <2>3 DEF OneOwner
<1> QED BY <1>1, <1>2, <1>3 DEF Quiet, OwnInv

\* The ownership invariant is inductive relative to that of the sockets.
LEMMA NextOwn == IInv /\ OwnInv /\ [Next]_vars => OwnInv'
  BY NextInv, QuietSteps, ReadOwn, HeadOwn, QuietOwn

\* It holds throughout.
LEMMA OwnInvariance == Spec => [](IInv /\ OwnInv)
<1>1. IInv /\ OwnInv /\ [Next]_vars => (IInv /\ OwnInv)'
  BY NextInv, NextOwn
<1> QED BY InitInv, InitOwn, <1>1, PTL DEF Spec

\* No connection is ever handed over twice, to one worker or to two: dispatch
\* pops each request once and a read queues each client once.
THEOREM HandedOverOnce == Spec => []OneOwner
<1>1. OwnInv => OneOwner
  BY DEF OwnInv
<1> QED BY OwnInvariance, <1>1, PTL

-----------------------------------------------------------------------------
(* Sessions are decided once *)

\* Decisions, and what may lead to one, are made at the head of a worker's
\* loop and in its client events; elsewhere events only come from decisions.
Undecided ==
  /\ UNCHANGED <<served, session>>
  /\ \A w \in Workers, c \in Clients :
       ClientTk(c) \in (wready[w] \cup wreadable[w] \cup wwritable[w])' =>
         \/ ClientTk(c) \in wready[w] \cup wreadable[w] \cup wwritable[w]
         \/ Issued(c)

\* The other steps of clients, master and workers decide nothing.
LEMMA UndecidedSteps ==
  ASSUME IInv, [Next]_vars
  PROVE  \/ Undecided
         \/ \E w \in Workers : WorkerLoopHead(w)
         \/ \E w \in Workers, c \in Clients : WorkerClientEvent(w, c)
<1> USE DEF clientVars, masterVars, workerVars, logVars
<1>t. /\ wready \in [Workers -> SUBSET LoopTks]
      /\ wreadable \in [Workers -> SUBSET LoopTks]
      /\ wwritable \in [Workers -> SUBSET LoopTks]
  BY DEF IInv, TypeOK, WorkersTypeOK
<1>s. \A c, d \in Clients : /\ ClientTk(c) # StreamTk
                            /\ ClientTk(c) = ClientTk(d) => c = d
  BY DEF ClientTk, StreamTk
<1>1. ASSUME UNCHANGED <<served, session, wready, wreadable, wwritable>>
      PROVE  Undecided
  BY <1>1 DEF Undecided
<1>2. ASSUME NEW c \in Clients, ClientStep(c)
      PROVE  Undecided
  <2>1. CASE ClientCloses(c)
    <3>1. /\ served' = served /\ session' = session
          /\ wreadable' = wreadable /\ wwritable' = wwritable
          /\ \A w \in Workers :
               wready'[w] = IF c \in Registered(w) THEN wready[w] \cup {ClientTk(c)}
                                                   ELSE wready[w]
      BY <2>1 DEF ClientCloses
    <3>2. \A w \in Workers : c \in Registered(w) => Issued(c)
      BY DEF Registered, Issued
    <3> QED BY <3>1, <3>2, <1>s DEF Undecided
  <2> QED BY <1>1, <1>2, <2>1
          DEF ClientStep, ClientConnect, HelloArrives, ClientEstablished,
              ClientLearnsClose
<1>3. CASE MasterStep
  <2>1. /\ served' = served /\ session' = session
        /\ wreadable' = wreadable /\ wwritable' = wwritable
    BY <1>3 DEF MasterStep, MasterLoopHead, MasterPoll, MasterAcceptClient,
                MasterReadClient, MasterAcceptWorker, MasterWorkerStream
  <2>2. \A w \in Workers : wready'[w] \subseteq wready[w] \cup {StreamTk}
    BY <1>3, <1>t DEF MasterStep, MasterLoopHead, MasterPoll, MasterAcceptClient,
                MasterReadClient, MasterAcceptWorker, MasterWorkerStream
  <2> QED BY <2>1, <2>2, <1>s DEF Undecided
<1>4. ASSUME NEW w \in Workers,
             \/ WorkerStart(w) \/ WorkerPoll(w) \/ WorkerStream(w)
             \/ WorkerStreamEnds(w) \/ WorkerCrash(w)
      PROVE  Undecided
  <2>1. served' = served /\ session' = session
    BY <1>4 DEF WorkerStart, WorkerPoll, WorkerStream, WorkerStreamEnds, WorkerCrash
  <2>2. \A v \in Workers :
          (wready[v] \cup wreadable[v] \cup wwritable[v])'
            \subseteq wready[v] \cup wreadable[v] \cup wwritable[v]
    <3>1. CASE UNCHANGED <<wready, wreadable, wwritable>>
      BY <3>1
    <3>2. CASE WorkerPoll(w)
      BY <3>2, <1>t DEF WorkerPoll
    <3>3. CASE WorkerHandles(w, StreamTk) /\ wready' = wready
      BY <3>3, <1>t DEF WorkerHandles
    <3> QED BY <1>4, <3>1, <3>2, <3>3
            DEF WorkerStart, WorkerStream, WorkerStreamEnds, WorkerCrash
  <2> QED BY <2>1, <2>2 DEF Undecided
<1>5. CASE UNCHANGED vars
  BY <1>5, <1>1 DEF vars
<1> QED BY <1>2, <1>3, <1>4, <1>5 DEF Next, WorkerStep

\* The steps that change a worker's socket, and how.
LEMMA SocketSteps ==
  ASSUME IInv, [Next]_vars, NEW w \in Workers
  PROVE  \/ chan'[w] = chan[w]
         \/ MasterLoopHead /\ chan'[w] = Dispatch(chan[w], newRequests)
         \/ /\ MasterWorkerStream(w)
            /\ \E n \in 1 .. OutLen(chan[w]) : chan'[w] = Write(chan[w], n)
         \/ /\ WorkerStream(w)
            /\ \E n, k, b : /\ ReadReturns(chan[w], n, k)
                            /\ b \in FullAfter(chan[w], n)
                            /\ chan'[w] = TakeOne(Receive(chan[w], n, k, b))
<1>t. chan \in [Workers -> FdStreamType(Clients)]
  BY Counts
<1>1. CASE chan' = chan
  BY <1>1
<1>2. CASE MasterLoopHead
  BY <1>2, <1>t, DispatchMoves DEF MasterLoopHead, Dispatched
<1>3. ASSUME NEW v \in Workers, MasterWorkerStream(v), chan' # chan
      PROVE  \/ chan'[w] = chan[w]
             \/ v = w /\ \E n \in 1 .. OutLen(chan[w]) : chan'[w] = Write(chan[w], n)
  BY <1>3, <1>t DEF MasterWorkerStream
<1>4. ASSUME NEW v \in Workers, WorkerStream(v), chan' # chan
      PROVE  \/ chan'[w] = chan[w]
             \/ /\ v = w
                /\ \E n, k, b : /\ ReadReturns(chan[w], n, k)
                                /\ b \in FullAfter(chan[w], n)
                                /\ chan'[w] = TakeOne(Receive(chan[w], n, k, b))
  BY <1>4, <1>t DEF WorkerStream
<1>5. chan' = chan \/ MasterLoopHead \/ (\E v \in Workers : MasterWorkerStream(v))
        \/ \E v \in Workers : WorkerStream(v)
  BY DEF Next, ClientStep, MasterStep, WorkerStep, ClientConnect, HelloArrives,
         ClientEstablished, ClientCloses, ClientLearnsClose, MasterPoll,
         MasterAcceptClient, MasterReadClient, MasterAcceptWorker, WorkerStart,
         WorkerLoopHead, WorkerPoll, WorkerStreamEnds, WorkerClientEvent,
         WorkerCrash, vars, masterVars, workerVars, clientVars
<1> QED BY <1>1, <1>2, <1>3, <1>4, <1>5

\* What has been put into a socket stays, and what has been taken stays.
LEMMA SocketsGrow ==
  ASSUME IInv, [Next]_vars, NEW w \in Workers
  PROVE  /\ \A i \in 1 .. Len(chan[w].fds) :
              i \in 1 .. Len(chan'[w].fds) /\ chan'[w].fds[i] = chan[w].fds[i]
         /\ Len(chan[w].taken) \in Nat /\ Len(chan'[w].taken) \in Nat
         /\ Len(chan[w].taken) <= Len(chan'[w].taken)
<1>t. chan[w] \in FdStreamType(Clients)
  BY Counts
<1>f. Fields(Clients, chan[w])
  BY <1>t, FieldTypes
<1>1. CASE chan'[w].fds = chan[w].fds /\ chan'[w].taken = chan[w].taken
  BY <1>1, <1>f DEF Fields
<1>2. CASE chan'[w] = Dispatch(chan[w], newRequests)
  <2>1. Accepted(chan[w], newRequests) \in Seq(Clients)
    BY <1>t, AcceptedType DEF IInv, TypeOK, MasterTypeOK
  <2>2. /\ chan'[w].fds = chan[w].fds \o Accepted(chan[w], newRequests)
        /\ chan'[w].taken = chan[w].taken
    BY <1>2, <1>t DEF Dispatch, FdStreamType
  <2>3. chan[w].fds \in Seq(Clients) /\ Len(chan[w].fds) \in Nat
    BY <1>f DEF Fields
  <2> DEFINE a == Accepted(chan[w], newRequests)
  <2>4. a \in Seq(Clients) /\ Len(a) \in Nat /\ chan'[w].fds = chan[w].fds \o a
    BY <2>1, <2>2, LenProperties
  <2> HIDE DEF a
  <2>5. /\ Len(chan'[w].fds) = Len(chan[w].fds) + Len(a)
        /\ \A i \in 1 .. Len(chan[w].fds) : chan'[w].fds[i] = chan[w].fds[i]
    BY <2>3, <2>4, ConcatProperties
  <2>6. \A i \in 1 .. Len(chan[w].fds) : i \in 1 .. Len(chan'[w].fds)
    BY <2>3, <2>4, <2>5
  <2>7. Len(chan[w].taken) \in Nat /\ Len(chan'[w].taken) = Len(chan[w].taken)
    BY <2>2, <1>f DEF Fields
  <2> QED BY <2>5, <2>6, <2>7
<1>3. ASSUME NEW n, chan'[w] = Write(chan[w], n)
      PROVE  chan'[w].fds = chan[w].fds /\ chan'[w].taken = chan[w].taken
  BY <1>3, <1>t, WriteKeeps
<1>4. ASSUME NEW n, NEW k, NEW b, chan'[w] = TakeOne(Receive(chan[w], n, k, b))
      PROVE  /\ chan'[w].fds = chan[w].fds
             /\ \/ chan'[w].taken = chan[w].taken
                \/ Len(chan'[w].taken) = Len(chan[w].taken) + 1
  <2>1. /\ TakeOne(Receive(chan[w], n, k, b)).fds = chan[w].fds
        /\ \/ TakeOne(Receive(chan[w], n, k, b)).taken = chan[w].taken
           \/ Len(TakeOne(Receive(chan[w], n, k, b)).taken) = Len(chan[w].taken) + 1
    BY <1>t, ReadKeeps
  <2> QED BY <1>4, <2>1
<1>5. CASE /\ chan'[w].fds = chan[w].fds
           /\ Len(chan'[w].taken) = Len(chan[w].taken) + 1
  <2>1. Len(chan[w].taken) \in Nat
    BY <1>f DEF Fields
  <2> QED BY <1>5, <2>1
<1> QED BY <1>1, <1>2, <1>3, <1>4, <1>5, SocketSteps

\* The clients a worker decides on at the head of its loop: theirs are the
\* connections it has been given and not decided on, and nobody else has.
LEMMA NewlyDecided ==
  ASSUME IInv, OwnInv, SessionInv, NEW w \in Workers,
         NEW c \in Opened(w) \cup Rejected(w)
  PROVE  /\ c \in Clients /\ session[c] = "none"
         /\ \E i \in 1 .. Len(chan[w].taken) : chan[w].fds[i] = c
         /\ Occurs(c, chan[w].fds)
         /\ \A v \in Workers : Occurs(c, chan[v].fds) => v = w
         /\ c \in Opened(w) <=> c \notin BadClients
         /\ c \in Rejected(w) <=> c \in BadClients
<1>t. chan \in [Workers -> FdStreamType(Clients)] /\ StreamInv(chan[w])
  BY Counts DEF IInv, StreamsInv
<1>f. Fields(Clients, chan[w])
  BY <1>t, FieldTypes
<1>1. \A i \in 1 .. Len(chan[w].taken) :
        /\ i \in 1 .. Len(chan[w].fds)
        /\ chan[w].taken[i].fd = chan[w].fds[i]
        /\ chan[w].taken[i].header = chan[w].fds[i]
        /\ chan[w].fds[i] \in Clients
  <2>1. Len(chan[w].taken) <= Len(chan[w].fds)
    BY <1>t, <1>f DEF Fields, StreamInv, CountsInOrder
  <2>2. \A i \in 1 .. Len(chan[w].fds) : chan[w].fds[i] \in Clients
    BY <1>f, ElementOfSeq DEF Fields
  <2> QED BY <1>t, <1>f, <2>1, <2>2 DEF Fields, StreamInv, TakenInOrder
<1>2. PICK i \in NewMsgs(w) : chan[w].taken[i].fd = c
  BY DEF Opened, Rejected
<1>3. /\ i \in 1 .. Len(chan[w].taken) /\ i > served[w]
      /\ i \in 1 .. Len(chan[w].fds) /\ chan[w].fds[i] = c /\ c \in Clients
  BY <1>1, <1>2 DEF NewMsgs
<1>4. \A v \in Workers : \A j \in 1 .. Len(chan[v].fds) :
        chan[v].fds[j] = c => v = w /\ j = i
  BY <1>3 DEF OwnInv, OneOwner
<1>5. session[c] = "none"
  <2> SUFFICES ASSUME session[c] # "none" PROVE FALSE
    OBVIOUS
  <2>1. PICK v \in Workers : \E j \in 1 .. served[v] : chan[v].fds[j] = c
    BY <1>3 DEF SessionInv
  <2>2. PICK j \in 1 .. served[v] : chan[v].fds[j] = c
    BY <2>1
  <2>3. /\ served[v] \in Nat /\ served[v] <= Len(chan[v].taken)
        /\ Len(chan[v].taken) \in Nat /\ Len(chan[v].fds) \in Nat
        /\ Len(chan[v].taken) <= Len(chan[v].fds)
    <3>1. Fields(Clients, chan[v]) /\ StreamInv(chan[v])
      BY Counts, FieldTypes DEF IInv, StreamsInv
    <3>2. served[v] \in Nat /\ served[v] <= Len(chan[v].taken)
      BY DEF SessionInv, IInv, TypeOK, WorkersTypeOK
    <3>3. /\ Len(chan[v].taken) \in Nat /\ Len(chan[v].fds) \in Nat
          /\ Len(chan[v].at) \in Nat /\ chan[v].got \in Nat
      BY <3>1 DEF Fields
    <3>4. Len(chan[v].taken) <= Len(chan[v].fds)
      BY <3>1, <3>3 DEF StreamInv, CountsInOrder
    <3> QED BY <3>2, <3>3, <3>4
  <2>4. j \in 1 .. Len(chan[v].fds)
    BY <2>3
  <2> QED BY <1>3, <1>4, <2>2, <2>3, <2>4
<1>6. /\ c \in Opened(w) <=> c \notin BadClients
      /\ c \in Rejected(w) <=> c \in BadClients
  BY <1>1, <1>2 DEF Opened, Rejected, NewMsgs
<1> QED BY <1>3, <1>4, <1>5, <1>6 DEF Occurs

\* Nothing has been served at the start.
LEMMA InitSession == Init => SessionInv
  BY EmptySeq DEF Init, SessionInv, NewStream

\* Where a client was decided on stays the place it was decided on.
LEMMA DecidedKept ==
  ASSUME IInv, [Next]_vars, SessionInv,
         NEW c \in Clients, session[c] # "none",
         \A w \in Workers : served'[w] \in Nat /\ served[w] <= served'[w]
  PROVE  \E w \in Workers : \E i \in 1 .. served'[w] : chan'[w].fds[i] = c
<1>1. PICK w \in Workers : \E i \in 1 .. served[w] : chan[w].fds[i] = c
  BY DEF SessionInv
<1>2. PICK i \in 1 .. served[w] : chan[w].fds[i] = c
  BY <1>1
<1>3. Fields(Clients, chan[w]) /\ StreamInv(chan[w])
  BY Counts, FieldTypes DEF IInv, StreamsInv
<1>4. served[w] \in Nat /\ served[w] <= Len(chan[w].taken)
  BY DEF SessionInv, IInv, TypeOK, WorkersTypeOK
<1>5. served[w] <= Len(chan[w].fds)
  <2>1. Len(chan[w].taken) <= Len(chan[w].fds)
    BY <1>3 DEF Fields, StreamInv, CountsInOrder
  <2>2. Len(chan[w].taken) \in Nat /\ Len(chan[w].fds) \in Nat
    BY <1>3 DEF Fields
  <2> QED BY <1>4, <2>1, <2>2
<1>6. i \in 1 .. Len(chan[w].fds) /\ i \in 1 .. served'[w]
  <2>1. Len(chan[w].fds) \in Nat /\ served'[w] \in Nat /\ served[w] <= served'[w]
    BY <1>3 DEF Fields
  <2> QED BY <1>4, <1>5, <2>1
<1> QED BY <1>2, <1>6, SocketsGrow

\* The decisions at the head of a worker's loop.
LEMMA WorkerHeadSession ==
  ASSUME IInv, OwnInv, SessionInv, [Next]_vars, NEW w \in Workers, WorkerLoopHead(w)
  PROVE  SessionInv'
<1>t. /\ wready \in [Workers -> SUBSET LoopTks]
      /\ served \in [Workers -> Nat]
      /\ \A v \in Workers : Len(chan[v].taken) \in Nat
  BY SocketsGrow DEF IInv, TypeOK, WorkersTypeOK
<1>s. \A c, d \in Clients : /\ ClientTk(c) # StreamTk
                            /\ ClientTk(c) = ClientTk(d) => c = d
  BY DEF ClientTk, StreamTk
<1>1. /\ chan' = chan /\ served' = [served EXCEPT ![w] = Len(chan[w].taken)]
      /\ wreadable' = wreadable /\ wwritable' = wwritable
      /\ wready'[w] \subseteq wready[w] \cup Armed(w) \cup {StreamTk}
      /\ \A v \in Workers \ {w} : wready'[v] = wready[v]
      /\ \A c \in Clients :
           session'[c] = IF c \in Opened(w) THEN "greeting"
                         ELSE IF c \in Rejected(w) THEN "rejected" ELSE session[c]
  BY <1>t DEF WorkerLoopHead
<1>2. \A v \in Workers : /\ served'[v] \in Nat /\ served[v] <= served'[v]
                         /\ served'[v] <= Len(chan'[v].taken)
  BY <1>t, <1>1 DEF SessionInv
<1>3. ASSUME NEW c \in Clients, session'[c] # "none"
      PROVE  \E v \in Workers : \E i \in 1 .. served'[v] : chan'[v].fds[i] = c
  <2>1. CASE session[c] # "none"
    BY <1>2, <2>1, DecidedKept
  <2>2. CASE session[c] = "none"
    <3>1. c \in Opened(w) \cup Rejected(w)
      BY <1>1, <1>3, <2>2
    <3>2. \E i \in 1 .. Len(chan[w].taken) : chan[w].fds[i] = c
      BY <3>1, NewlyDecided
    <3> QED BY <1>1, <1>t, <3>2
  <2> QED BY <2>1, <2>2
<1>4. ASSUME NEW v \in Workers, NEW c \in Clients,
             ClientTk(c) \in wready'[v] \cup wreadable'[v] \cup wwritable'[v]
      PROVE  Issued(c)'
  <2>1. c \in Opened(w) \/ Issued(c)
    <3>1. ClientTk(c) \in Armed(w) => c \in Opened(w)
      <4>1. Opened(w) \subseteq Clients
        BY NewlyDecided
      <4> QED BY <4>1, <1>s DEF Armed
    <3> QED BY <1>1, <1>4, <1>s, <3>1 DEF SessionInv
  <2>2. Issued(c) => c \notin Opened(w) \cup Rejected(w)
    BY NewlyDecided DEF Issued
  <2> QED BY <1>1, <2>1, <2>2 DEF Issued
<1> QED BY <1>2, <1>3, <1>4 DEF SessionInv

\* A client's event at its worker is of a client with a session, and leaves
\* it one.
LEMMA ClientEventSession ==
  ASSUME IInv, SessionInv, [Next]_vars, NEW w \in Workers, NEW c \in Clients,
         WorkerClientEvent(w, c)
  PROVE  SessionInv' /\ Issued(c) /\ \A d \in Clients : Issued(d)' <=> Issued(d)
<1>t. /\ wready \in [Workers -> SUBSET LoopTks]
      /\ wreadable \in [Workers -> SUBSET LoopTks]
      /\ wwritable \in [Workers -> SUBSET LoopTks]
      /\ served \in [Workers -> Nat]
      /\ session \in [Clients -> {"none", "rejected", "greeting", "open", "closed"}]
  BY DEF IInv, TypeOK, WorkersTypeOK, ClientsTypeOK
<1>1. /\ chan' = chan /\ served' = served
      /\ \A v \in Workers :
           (wready[v] \cup wreadable[v] \cup wwritable[v])'
             \subseteq wready[v] \cup wreadable[v] \cup wwritable[v]
      /\ ClientTk(c) \in wreadable[w] \cup wwritable[w]
      /\ session'[c] \in {"open", "closed"}
      /\ \A d \in Clients \ {c} : session'[d] = session[d]
  BY <1>t DEF WorkerClientEvent, WorkerHandles
<1>2. Issued(c) /\ Issued(c)'
  BY <1>1 DEF SessionInv, Issued
<1>3. \A d \in Clients : Issued(d)' <=> Issued(d)
  BY <1>1, <1>2 DEF Issued
<1>4. \A d \in Clients : session'[d] # "none" => session[d] # "none"
  BY <1>1, <1>2 DEF Issued
<1> QED BY <1>1, <1>2, <1>3, <1>4 DEF SessionInv

\* The session invariant is inductive relative to those of the sockets and of
\* ownership.
LEMMA NextSession == IInv /\ OwnInv /\ SessionInv /\ [Next]_vars => SessionInv'
<1> SUFFICES ASSUME IInv, OwnInv, SessionInv, [Next]_vars PROVE SessionInv'
  OBVIOUS
<1>1. CASE Undecided
  <2>1. \A w \in Workers : /\ served'[w] \in Nat /\ served[w] <= served'[w]
                           /\ served'[w] <= Len(chan'[w].taken)
    <3>1. \A w \in Workers : served[w] \in Nat /\ served[w] <= Len(chan[w].taken)
      BY DEF SessionInv, IInv, TypeOK, WorkersTypeOK
    <3> QED BY <1>1, <3>1, SocketsGrow DEF Undecided
  <2>2. ASSUME NEW c \in Clients, session'[c] # "none"
        PROVE  \E w \in Workers : \E i \in 1 .. served'[w] : chan'[w].fds[i] = c
    BY <1>1, <2>1, <2>2, DecidedKept DEF Undecided
  <2>3. \A w \in Workers, c \in Clients :
          ClientTk(c) \in (wready[w] \cup wreadable[w] \cup wwritable[w])' => Issued(c)'
    BY <1>1 DEF Undecided, SessionInv, Issued
  <2> QED BY <2>1, <2>2, <2>3 DEF SessionInv
<1> QED BY <1>1, UndecidedSteps, WorkerHeadSession, ClientEventSession

\* It holds throughout.
LEMMA SessionInvariance == Spec => [](IInv /\ OwnInv /\ SessionInv)
<1>1. IInv /\ OwnInv /\ SessionInv /\ [Next]_vars => (IInv /\ OwnInv /\ SessionInv)'
  BY NextInv, NextOwn, NextSession
<1> QED BY InitInv, InitOwn, InitSession, <1>1, PTL DEF Spec

-----------------------------------------------------------------------------
(* The refinement of the abstract pool *)

\* The refinement mapping: owners, issued and turnedAway of SessionPool.
Owners == [c \in Clients |->
             {w \in Workers : \E i \in 1 .. Len(chan[w].fds) : chan[w].fds[i] = c}]
IssuedClients == {c \in Clients : session[c] \in {"greeting", "open", "closed"}}
TurnedAway    == {c \in Clients : session[c] = "rejected"}

\* The abstract actions on the mapped state, and the abstract stutter.
AssignStep(S, w) ==
  /\ \A c \in S : Owners[c] = {}
  /\ Owners' = [c \in Clients |-> IF c \in S THEN {w} ELSE Owners[c]]
  /\ UNCHANGED <<IssuedClients, TurnedAway>>
DecideStep(S, w) ==
  /\ \A c \in S : Owners[c] = {w} /\ c \notin IssuedClients \cup TurnedAway
  /\ IssuedClients' = IssuedClients \cup (S \ BadClients)
  /\ TurnedAway' = TurnedAway \cup (S \cap BadClients)
  /\ UNCHANGED Owners
PoolStutters == UNCHANGED <<Owners, IssuedClients, TurnedAway>>

\* Nothing is assigned and nothing decided at the start.
LEMMA InitRefines == Init => Pool!Init
<1> SUFFICES ASSUME Init PROVE Pool!Init
  OBVIOUS
<1>1. \A w \in Workers : Len(chan[w].fds) = 0
  BY EmptySeq DEF Init, NewStream
<1>2. Owners = [c \in Clients |-> {}]
  BY <1>1 DEF Owners
<1>3. IssuedClients = {} /\ TurnedAway = {}
  BY DEF Init, IssuedClients, TurnedAway
<1> QED BY <1>2, <1>3 DEF Pool!Init, Owners, IssuedClients, TurnedAway

\* WorkerStreams.dispatch assigns the requests that find room to one worker.
LEMMA HeadRefines ==
  ASSUME IInv, OwnInv, MasterLoopHead
  PROVE  PoolStutters \/ \E w \in Workers, S \in SUBSET Clients : AssignStep(S, w)
<1>1. session' = session
  BY DEF MasterLoopHead
<1>2. CASE pool = <<>>
  BY <1>1, <1>2 DEF MasterLoopHead, Dispatched, PoolStutters, Owners, IssuedClients,
                    TurnedAway
<1>3. CASE pool # <<>>
  <2>1. PICK v \in Workers, a \in Seq(Clients) :
          /\ Len(a) <= Len(newRequests)
          /\ \A i \in 1 .. Len(a) : a[i] = newRequests[i]
          /\ chan'[v].fds = chan[v].fds \o a
          /\ \A w \in Workers \ {v} : chan'[w] = chan[w]
    BY <1>3, DispatchMoves
  <2> DEFINE S == {a[i] : i \in 1 .. Len(a)}
  <2>2. newRequests \in Seq(Clients) /\ Len(newRequests) \in Nat /\ Len(a) \in Nat
    BY LenProperties DEF IInv, TypeOK, MasterTypeOK
  <2>3. chan[v].fds \in Seq(Clients) /\ Len(chan[v].fds) \in Nat
    BY Counts, FieldTypes DEF Fields
  <2>4. \A c : Occurs(c, chan'[v].fds) <=> Occurs(c, chan[v].fds) \/ c \in S
    <3> DEFINE m == Len(chan[v].fds)
    <3>1. /\ Len(chan'[v].fds) = m + Len(a)
          /\ \A i \in 1 .. m : chan'[v].fds[i] = chan[v].fds[i]
          /\ \A i \in m + 1 .. m + Len(a) : chan'[v].fds[i] = a[i - m]
      BY <2>1, <2>2, <2>3, ConcatProperties
    <3>2. m \in Nat
      BY <2>3
    <3> HIDE DEF m
    <3>3. ASSUME NEW c, c \in S
          PROVE  Occurs(c, chan'[v].fds)
      <4>1. PICK i \in 1 .. Len(a) : a[i] = c
        BY <3>3
      <4>2. m + i \in m + 1 .. m + Len(a) /\ (m + i) - m = i
        BY <2>2, <3>2
      <4>3. chan'[v].fds[m + i] = c
        BY <3>1, <4>1, <4>2
      <4>4. m + i \in 1 .. Len(chan'[v].fds)
        BY <2>2, <3>1, <3>2
      <4> QED BY <4>3, <4>4 DEF Occurs
    <3>4. ASSUME NEW c, Occurs(c, chan[v].fds)
          PROVE  Occurs(c, chan'[v].fds)
      <4>1. PICK i \in 1 .. m : chan[v].fds[i] = c
        BY <3>4 DEF Occurs, m
      <4>2. i \in 1 .. Len(chan'[v].fds)
        BY <2>2, <3>1, <3>2
      <4> QED BY <3>1, <4>1, <4>2 DEF Occurs
    <3>5. ASSUME NEW c, Occurs(c, chan'[v].fds)
          PROVE  Occurs(c, chan[v].fds) \/ c \in S
      <4>1. PICK i \in 1 .. m + Len(a) : chan'[v].fds[i] = c
        BY <3>1, <3>5 DEF Occurs
      <4>2. CASE i <= m
        <5>1. i \in 1 .. m
          BY <2>2, <3>2, <4>2
        <5> QED BY <3>1, <4>1, <5>1 DEF Occurs, m
      <4>3. CASE i > m
        <5>1. i \in m + 1 .. m + Len(a) /\ i - m \in 1 .. Len(a)
          BY <2>2, <3>2, <4>3
        <5> QED BY <3>1, <4>1, <5>1
      <4> QED BY <2>2, <3>2, <4>2, <4>3
    <3> QED BY <3>3, <3>4, <3>5
  <2>5. \A c \in S : \A w \in Workers : ~Occurs(c, chan[w].fds)
    <3>1. \A i \in 1 .. Len(a) : i \in 1 .. Len(newRequests)
      BY <2>1, <2>2
    <3>2. \A c \in S : \E i \in 1 .. Len(newRequests) : newRequests[i] = c
      BY <2>1, <3>1
    <3>3. \A w \in Workers : \A i \in 1 .. Len(chan[w].fds) :
            \A j \in 1 .. Len(newRequests) : chan[w].fds[i] # newRequests[j]
      BY DEF OwnInv, OneOwner
    <3> HIDE DEF S
    <3> QED BY <3>2, <3>3 DEF Occurs
  <2>6. S \in SUBSET Clients
    BY ElementOfSeq
  <2> HIDE DEF S
  <2>7. \A c \in S : Owners[c] = {}
    BY <2>5, <2>6 DEF Owners, Occurs
  <2>8. Owners' = [c \in Clients |-> IF c \in S THEN {v} ELSE Owners[c]]
    <3>1. ASSUME NEW c \in Clients
          PROVE  Owners'[c] = IF c \in S THEN {v} ELSE Owners[c]
      <4>1. \A w \in Workers : w \in Owners'[c] <=> Occurs(c, chan'[w].fds)
        BY DEF Owners, Occurs
      <4>2. \A w \in Workers : w \in Owners[c] <=> Occurs(c, chan[w].fds)
        BY DEF Owners, Occurs
      <4>3. Owners'[c] \subseteq Workers /\ Owners[c] \subseteq Workers
        BY DEF Owners
      <4>4. \A w \in Workers \ {v} :
              Occurs(c, chan'[w].fds) <=> Occurs(c, chan[w].fds)
        BY <2>1
      <4>5. CASE c \in S
        BY <4>1, <4>3, <4>4, <4>5, <2>4, <2>5
      <4>6. CASE c \notin S
        <5>1. \A w \in Workers : w \in Owners'[c] <=> w \in Owners[c]
          BY <4>1, <4>2, <4>4, <4>6, <2>4
        <5> QED BY <4>3, <4>6, <5>1
      <4> QED BY <4>5, <4>6
    <3> QED BY <3>1 DEF Owners
  <2>9. UNCHANGED <<IssuedClients, TurnedAway>>
    BY <1>1 DEF IssuedClients, TurnedAway
  <2> QED BY <2>6, <2>7, <2>8, <2>9 DEF AssignStep
<1> QED BY <1>2, <1>3

\* The head of a worker's loop decides on the clients of its new messages.
LEMMA WorkerHeadRefines ==
  ASSUME IInv, OwnInv, SessionInv, NEW w \in Workers, WorkerLoopHead(w)
  PROVE  \E S \in SUBSET Clients : DecideStep(S, w)
<1> DEFINE S == Opened(w) \cup Rejected(w)
<1>1. /\ chan' = chan
      /\ \A c \in Clients :
           session'[c] = IF c \in Opened(w) THEN "greeting"
                         ELSE IF c \in Rejected(w) THEN "rejected" ELSE session[c]
  BY DEF WorkerLoopHead
<1>2. S \in SUBSET Clients
  BY NewlyDecided
<1>3. \A c \in S : Owners[c] = {w} /\ c \notin IssuedClients \cup TurnedAway
  <2> SUFFICES ASSUME NEW c \in S
               PROVE  Owners[c] = {w} /\ c \notin IssuedClients \cup TurnedAway
    OBVIOUS
  <2>1. /\ c \in Clients /\ session[c] = "none" /\ Occurs(c, chan[w].fds)
        /\ \A v \in Workers : Occurs(c, chan[v].fds) => v = w
    BY NewlyDecided
  <2>2. Owners[c] = {v \in Workers : Occurs(c, chan[v].fds)}
    BY <2>1 DEF Owners, Occurs
  <2> QED BY <2>1, <2>2 DEF IssuedClients, TurnedAway
<1>4. \A c \in S : /\ c \in Opened(w) <=> c \notin BadClients
                   /\ c \in Rejected(w) <=> c \in BadClients
  BY NewlyDecided
<1> HIDE DEF S
<1>5. \A c \in Clients : c \in S <=> c \in Opened(w) \/ c \in Rejected(w)
  BY DEF S
<1>6. \A c \in Clients : c \in S => session[c] = "none"
  BY NewlyDecided DEF S
<1>7. IssuedClients' = IssuedClients \cup (S \ BadClients)
  BY <1>1, <1>2, <1>4, <1>5, <1>6 DEF IssuedClients
<1>8. TurnedAway' = TurnedAway \cup (S \cap BadClients)
  BY <1>1, <1>2, <1>4, <1>5, <1>6 DEF TurnedAway
<1>9. Owners' = Owners
  BY <1>1 DEF Owners
<1> QED BY <1>2, <1>3, <1>7, <1>8, <1>9 DEF DecideStep

\* Every step is one of the abstract pool or a stutter of it.
LEMMA StepRefines ==
  ASSUME IInv, OwnInv, SessionInv, [Next]_vars
  PROVE  \/ PoolStutters
         \/ \E w \in Workers, S \in SUBSET Clients : AssignStep(S, w) \/ DecideStep(S, w)
<1>1. CASE MasterLoopHead
  BY <1>1, HeadRefines
<1>2. CASE \E w \in Workers : WorkerLoopHead(w)
  BY <1>2, WorkerHeadRefines
<1>3. CASE Undecided /\ ~MasterLoopHead
  <2>1. \A w \in Workers : chan'[w].fds = chan[w].fds
    BY <1>3, QuietSteps DEF Quiet, MasterReadClient
  <2>2. Owners' = Owners
    BY <2>1 DEF Owners
  <2> QED BY <1>3, <2>2 DEF Undecided, PoolStutters, IssuedClients, TurnedAway
<1>4. CASE \E w \in Workers, c \in Clients : WorkerClientEvent(w, c)
  <2>1. PICK w \in Workers, c \in Clients : WorkerClientEvent(w, c)
    BY <1>4
  <2>2. chan' = chan /\ Owners' = Owners
    BY <2>1 DEF WorkerClientEvent, Owners
  <2>3. Issued(c) /\ \A d \in Clients : Issued(d)' <=> Issued(d)
    BY <2>1, ClientEventSession
  <2>4. IssuedClients' = IssuedClients
    BY <2>3 DEF IssuedClients, Issued
  <2>5. \A d \in Clients : session'[d] = "rejected" <=> session[d] = "rejected"
    <3>1. \A d \in Clients : d = c \/ session'[d] = session[d]
      BY <2>1 DEF WorkerClientEvent, IInv, TypeOK, ClientsTypeOK
    <3> QED BY <2>3, <3>1 DEF Issued
  <2> QED BY <2>2, <2>4, <2>5 DEF PoolStutters, TurnedAway
<1> QED BY <1>1, <1>2, <1>3, <1>4, UndecidedSteps

\* The steps above, as those of the instance.
LEMMA PoolSteps ==
  /\ PoolStutters => UNCHANGED Pool!poolVars
  /\ (\E w \in Workers, S \in SUBSET Clients : AssignStep(S, w) \/ DecideStep(S, w))
       => Pool!Next
<1>1. PoolStutters => UNCHANGED Pool!poolVars
  BY DEF PoolStutters, Pool!poolVars, Owners, IssuedClients, TurnedAway
<1>2. \A w \in Workers, S \in SUBSET Clients : AssignStep(S, w) => Pool!Assign(S, w)
  BY DEF AssignStep, Pool!Assign, Owners, IssuedClients, TurnedAway
<1>3. \A w \in Workers, S \in SUBSET Clients : DecideStep(S, w) => Pool!Decide(S, w)
  BY DEF DecideStep, Pool!Decide, Owners, IssuedClients, TurnedAway
<1> QED BY <1>1, <1>2, <1>3 DEF Pool!Next

\* Master's dispatch and the workers' loops implement the abstract pool: a
\* connection is assigned to one worker, once, and that worker alone decides
\* on it, once.
THEOREM PoolImplemented == Spec => ImplementsSessionPool
<1>1. IInv /\ OwnInv /\ SessionInv /\ [Next]_vars => [Pool!Next]_(Pool!poolVars)
  BY StepRefines, PoolSteps
<1> QED BY InitRefines, SessionInvariance, <1>1, PTL
        DEF Spec, ImplementsSessionPool, Pool!Spec
=============================================================================
