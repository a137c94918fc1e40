---------------------------- MODULE HandoffProofs ----------------------------
(***************************************************************************)
(* Theorems about Handoff, for any clients, workers, queue size and ways   *)
(* of cutting transfers: type correctness, and the invariant of the worker *)
(* sockets from which pairing by position is shown to be pairing by client.*)
(***************************************************************************)
EXTENDS Handoff, FdStreamProofs

\* A listener's event is there for a connection that is there: only master
\* takes connections out of a backlog, and only on such an event.
EventsFounded ==
  /\ MainTk \in mreadable => backlog # <<>>
  /\ UnixTk \in mreadable => wbacklog # <<>>
  /\ mwritable \subseteq {WorkerTk(w) : w \in Workers}

\* The inductive invariant.
IInv == TypeOK /\ EventsFounded /\ StreamsInv

\* Tokens have the kinds their names say, and no token is of two kinds.
LEMMA Tokens ==
  /\ MainTk \in MasterTks /\ UnixTk \in MasterTks /\ MainTk # UnixTk
  /\ StreamTk \in LoopTks
  /\ \A c \in Clients : /\ ClientTk(c) \in MasterTks /\ ClientTk(c) \in LoopTks
                        /\ ClientTk(c) # MainTk /\ ClientTk(c) # UnixTk
  /\ \A w \in Workers : /\ WorkerTk(w) \in MasterTks
                        /\ WorkerTk(w) # MainTk /\ WorkerTk(w) # UnixTk
  /\ \A tk : Edge(mreg, tk) \subseteq mreg
  BY DEF MainTk, UnixTk, StreamTk, ClientTk, WorkerTk, MasterTks, LoopTks, Edge

\* The loops start with nothing in flight: Init establishes the invariant.
LEMMA InitInv == Init => IInv
<1> SUFFICES ASSUME Init PROVE IInv
  OBVIOUS
<1>1. ClientsTypeOK
  BY EmptySeq DEF Init, ClientsTypeOK, HeaderSize
<1>2. MasterTypeOK
  BY EmptySeq, Tokens DEF Init, MasterTypeOK, MasterPcs, HeaderSize
<1>3. WorkersTypeOK
  BY DEF Init, WorkersTypeOK
<1>4. chan \in [Workers -> FdStreamType(Clients)] /\ StreamsInv
  BY NewStreamInv DEF Init, StreamsInv
<1>5. EventsFounded
  BY DEF Init, EventsFounded
<1> QED BY <1>1, <1>2, <1>3, <1>4, <1>5 DEF IInv, TypeOK

\* Clients and the network (client/connection.rs) leave the sockets alone and
\* only add to what an event may be founded on.
LEMMA ClientStepInv ==
  ASSUME IInv, NEW c \in Clients, ClientStep(c)
  PROVE  IInv'
<1> USE DEF IInv, TypeOK, clientVars, masterVars, workerVars, logVars
<1>1. CASE ClientConnect(c)
  <2>1. ClientsTypeOK' /\ backlog' # <<>>
    BY <1>1, AppendProperties DEF ClientConnect, ClientsTypeOK
  <2>2. MasterTypeOK'
    BY <1>1, Tokens DEF ClientConnect, MasterTypeOK
  <2>3. WorkersTypeOK'
    BY <1>1 DEF ClientConnect, WorkersTypeOK
  <2>4. EventsFounded' /\ StreamsInv' /\ chan' = chan
    BY <1>1, <2>1 DEF ClientConnect, EventsFounded, StreamsInv
  <2> QED BY <2>1, <2>2, <2>3, <2>4
<1>2. ASSUME NEW n \in HelloCuts \cup {HeaderSize}, HelloArrives(c, n)
      PROVE  IInv'
  <2>1. ClientsTypeOK'
    BY <1>2, HandoffAssumption DEF HelloArrives, ClientsTypeOK, HeaderSize
  <2>2. MasterTypeOK'
    BY <1>2, Tokens DEF HelloArrives, MasterTypeOK
  <2>3. WorkersTypeOK'
    BY <1>2 DEF HelloArrives, WorkersTypeOK
  <2>4. EventsFounded' /\ StreamsInv' /\ chan' = chan
    BY <1>2 DEF HelloArrives, EventsFounded, StreamsInv
  <2> QED BY <2>1, <2>2, <2>3, <2>4
<1>3. CASE ClientEstablished(c)
  <2>1. ClientsTypeOK'
    BY <1>3 DEF ClientEstablished, ClientsTypeOK
  <2>2. MasterTypeOK' /\ WorkersTypeOK'
    BY <1>3 DEF ClientEstablished, MasterTypeOK, WorkersTypeOK
  <2>3. EventsFounded' /\ StreamsInv' /\ chan' = chan
    BY <1>3 DEF ClientEstablished, EventsFounded, StreamsInv
  <2> QED BY <2>1, <2>2, <2>3
<1>4. CASE ClientCloses(c)
  <2>1. ClientsTypeOK'
    BY <1>4 DEF ClientCloses, ClientsTypeOK
  <2>2. MasterTypeOK'
    BY <1>4, Tokens DEF ClientCloses, MasterTypeOK
  <2>3. WorkersTypeOK'
    BY <1>4, Tokens DEF ClientCloses, WorkersTypeOK
  <2>4. EventsFounded' /\ StreamsInv' /\ chan' = chan
    BY <1>4 DEF ClientCloses, EventsFounded, StreamsInv
  <2> QED BY <2>1, <2>2, <2>3, <2>4
<1>5. CASE ClientLearnsClose(c)
  <2>1. ClientsTypeOK'
    BY <1>5 DEF ClientLearnsClose, ClientsTypeOK
  <2>2. MasterTypeOK' /\ WorkersTypeOK'
    BY <1>5 DEF ClientLearnsClose, MasterTypeOK, WorkersTypeOK
  <2>3. EventsFounded' /\ StreamsInv' /\ chan' = chan
    BY <1>5 DEF ClientLearnsClose, EventsFounded, StreamsInv
  <2> QED BY <2>1, <2>2, <2>3
<1> QED BY <1>1, <1>2, <1>3, <1>4, <1>5 DEF ClientStep

\* WorkerStreams.dispatch keeps every socket in order: the one that is given
\* the requests, and the others because they are left alone.
LEMMA DispatchedInv ==
  ASSUME IInv
  PROVE  /\ Dispatched \in [Workers -> FdStreamType(Clients)]
         /\ \A w \in Workers : StreamInv(Dispatched[w])
<1> USE DEF IInv, TypeOK
<1>1. CASE pool = <<>>
  BY <1>1 DEF Dispatched, StreamsInv
<1>2. CASE pool # <<>>
  <2> DEFINE v == pool[NextSend + 1]
  <2>1. pool \in Seq(Workers) /\ lastSend \in Nat /\ newRequests \in Seq(Clients)
    BY DEF MasterTypeOK
  <2>2. Len(pool) \in Nat \ {0}
    BY <1>2, <2>1, EmptySeq
  <2>3. NextSend + 1 \in 1 .. Len(pool)
    BY <2>1, <2>2 DEF NextSend
  <2>4. v \in Workers
    BY <2>1, <2>3, ElementOfSeq
  <2>5. Dispatched = [chan EXCEPT ![v] = Dispatch(chan[v], newRequests)]
    BY <1>2 DEF Dispatched
  <2> HIDE DEF v
  <2>6. /\ Dispatch(chan[v], newRequests) \in FdStreamType(Clients)
        /\ StreamInv(Dispatch(chan[v], newRequests))
    BY <2>1, <2>4, DispatchInv DEF StreamsInv
  <2> QED BY <2>4, <2>5, <2>6 DEF StreamsInv
<1> QED BY <1>1, <1>2

\* Handling an event leaves the batch without it.
LEMMA HandleEventInv ==
  ASSUME IInv, NEW tk, HandleEvent(tk)
  PROVE  /\ mpc' \in MasterPcs
         /\ mreadable' \subseteq MasterTks /\ mwritable' \subseteq MasterTks
         /\ mreadable' \subseteq mreadable /\ tk \notin mreadable'
         /\ mwritable' \subseteq {WorkerTk(w) : w \in Workers}
         /\ tk \in {MainTk, UnixTk} => tk \in mreadable
  BY Tokens DEF IInv, TypeOK, MasterTypeOK, HandleEvent, EventsFounded, MasterPcs

\* Master's loop (runmaster/mod.rs): dispatch and the write are the two steps
\* that touch a socket, and an accept the one that uses up what an event is
\* founded on.
LEMMA MasterStepInv ==
  ASSUME IInv, MasterStep
  PROVE  IInv'
<1> USE DEF IInv, TypeOK, clientVars, masterVars, workerVars, logVars
<1>1. CASE MasterLoopHead
  <2>1. ClientsTypeOK'
    BY <1>1 DEF MasterLoopHead, ClientsTypeOK
  <2>2. MasterTypeOK'
    <3>1. /\ ioActions' \subseteq MasterTks /\ toInsert' \subseteq MasterTks
          /\ toRemove' \subseteq MasterTks
      BY <1>1 DEF MasterLoopHead, MasterTypeOK, ActionsNow
    <3>2. mpc' \in MasterPcs /\ mready' \subseteq MasterTks
      BY <1>1, Tokens DEF MasterLoopHead, MasterTypeOK, MasterPcs, InPool
    <3>3. newRequests' \in Seq(Clients) /\ pool' \in Seq(Workers)
      BY <1>1, EmptySeq DEF MasterLoopHead, MasterTypeOK, Remaining
    <3>4. lastSend' \in Nat
      <4>1. CASE pool = <<>>
        BY <1>1, <4>1 DEF MasterLoopHead, MasterTypeOK
      <4>2. CASE pool # <<>>
        <5>1. Len(pool) \in Nat \ {0} /\ lastSend \in Nat
          BY <4>2, EmptySeq DEF MasterTypeOK
        <5> QED BY <1>1, <4>2, <5>1 DEF MasterLoopHead, NextSend
      <4> QED BY <4>1, <4>2
    <3>5. interest' \in [Workers -> {"RO", "RW"}]
      BY <1>1 DEF MasterLoopHead, MasterTypeOK, Wanted
    <3> QED BY <1>1, <3>1, <3>2, <3>3, <3>4, <3>5 DEF MasterLoopHead, MasterTypeOK
  <2>3. WorkersTypeOK'
    BY <1>1, Tokens DEF MasterLoopHead, WorkersTypeOK
  <2>4. chan' \in [Workers -> FdStreamType(Clients)] /\ StreamsInv'
    BY <1>1, DispatchedInv DEF MasterLoopHead, StreamsInv
  <2>5. EventsFounded'
    BY <1>1 DEF MasterLoopHead, EventsFounded
  <2> QED BY <2>1, <2>2, <2>3, <2>4, <2>5
<1>2. CASE MasterPoll
  <2>1. ClientsTypeOK' /\ WorkersTypeOK'
    BY <1>2 DEF MasterPoll, ClientsTypeOK, WorkersTypeOK
  <2>2. MasterTypeOK'
    BY <1>2 DEF MasterPoll, MasterTypeOK, MasterPcs
  <2>3. EventsFounded'
    BY <1>2, Tokens DEF MasterPoll, EventsFounded, MasterReadable, MasterWritable
  <2>4. StreamsInv' /\ chan' = chan
    BY <1>2 DEF MasterPoll, StreamsInv
  <2> QED BY <2>1, <2>2, <2>3, <2>4
<1>3. CASE MasterAcceptClient
  <2>0. HandleEvent(MainTk) /\ backlog # <<>>
    BY <1>3, HandleEventInv DEF MasterAcceptClient, EventsFounded
  <2>1. Head(backlog) \in Clients /\ Tail(backlog) \in Seq(Clients)
    BY <2>0, HeadTailProperties DEF ClientsTypeOK
  <2>2. ClientsTypeOK' /\ WorkersTypeOK'
    BY <1>3, <2>1 DEF MasterAcceptClient, ClientsTypeOK, WorkersTypeOK
  <2>3. MasterTypeOK'
    BY <1>3, <2>0, <2>1, Tokens, HandleEventInv
       DEF MasterAcceptClient, MasterTypeOK, Rearmed
  <2>4. EventsFounded'
    BY <1>3, <2>0, Tokens, HandleEventInv DEF MasterAcceptClient, EventsFounded
  <2>5. StreamsInv' /\ chan' = chan
    BY <1>3 DEF MasterAcceptClient, StreamsInv
  <2> QED BY <2>2, <2>3, <2>4, <2>5
<1>4. ASSUME NEW c \in Clients, MasterReadClient(c)
      PROVE  IInv'
  <2>0. HandleEvent(ClientTk(c))
    BY <1>4 DEF MasterReadClient
  <2>1. ClientsTypeOK' /\ WorkersTypeOK'
    BY <1>4 DEF MasterReadClient, ClientsTypeOK, WorkersTypeOK
  <2>2. MasterTypeOK'
    <3>1. bytesRead' \in [Clients -> 0 .. HeaderSize]
      BY <1>4 DEF MasterReadClient, MasterTypeOK, ClientsTypeOK, BytesNow
    <3>2. newRequests' \in Seq(Clients)
      BY <1>4, AppendProperties DEF MasterReadClient, MasterTypeOK
    <3>3. /\ mreg' \subseteq MasterTks /\ mready' \subseteq MasterTks
          /\ toRemove' \subseteq MasterTks
      BY <1>4, Tokens DEF MasterReadClient, MasterTypeOK
    <3> QED BY <1>4, <2>0, <3>1, <3>2, <3>3, HandleEventInv
            DEF MasterReadClient, MasterTypeOK
  <2>3. EventsFounded'
    BY <1>4, <2>0, HandleEventInv DEF MasterReadClient, EventsFounded
  <2>4. StreamsInv' /\ chan' = chan
    BY <1>4 DEF MasterReadClient, StreamsInv
  <2> QED BY <2>1, <2>2, <2>3, <2>4
<1>5. CASE MasterAcceptWorker
  <2>0. HandleEvent(UnixTk) /\ wbacklog # <<>>
    BY <1>5, HandleEventInv DEF MasterAcceptWorker, EventsFounded
  <2>1. Head(wbacklog) \in Workers /\ Tail(wbacklog) \in Seq(Workers)
    BY <2>0, HeadTailProperties DEF ClientsTypeOK
  <2>2. ClientsTypeOK' /\ WorkersTypeOK'
    BY <1>5, <2>1 DEF MasterAcceptWorker, ClientsTypeOK, WorkersTypeOK
  <2>3. MasterTypeOK'
    <3>1. pool' \in Seq(Workers)
      <4>1. Append(pool, Head(wbacklog)) \in Seq(Workers)
        BY <2>1, AppendProperties DEF MasterTypeOK
      <4> QED BY <1>5, <4>1 DEF MasterAcceptWorker, MasterTypeOK
    <3> QED BY <1>5, <2>0, <2>1, <3>1, Tokens, HandleEventInv
            DEF MasterAcceptWorker, MasterTypeOK
  <2>4. EventsFounded'
    BY <1>5, <2>0, Tokens, HandleEventInv DEF MasterAcceptWorker, EventsFounded
  <2>5. StreamsInv' /\ chan' = chan
    BY <1>5 DEF MasterAcceptWorker, StreamsInv
  <2> QED BY <2>2, <2>3, <2>4, <2>5
<1>6. ASSUME NEW w \in Workers, MasterWorkerStream(w)
      PROVE  IInv'
  <2>0. HandleEvent(WorkerTk(w))
    BY <1>6 DEF MasterWorkerStream, StreamEnded
  <2>1. ClientsTypeOK'
    BY <1>6 DEF MasterWorkerStream, StreamEnded, ClientsTypeOK
  <2>2. MasterTypeOK'
    BY <1>6, <2>0, Tokens, HandleEventInv DEF MasterWorkerStream, StreamEnded, MasterTypeOK
  <2>3. WorkersTypeOK'
    BY <1>6, Tokens DEF MasterWorkerStream, StreamEnded, WorkersTypeOK
  <2>4. EventsFounded'
    BY <1>6, <2>0, HandleEventInv DEF MasterWorkerStream, StreamEnded, EventsFounded
  <2>5. chan' \in [Workers -> FdStreamType(Clients)] /\ StreamsInv'
    <3>1. CASE chan' = chan
      BY <3>1 DEF StreamsInv
    <3>2. ASSUME NEW n \in 1 .. OutLen(chan[w]),
                 chan' = [chan EXCEPT ![w] = Write(chan[w], n)]
          PROVE  chan' \in [Workers -> FdStreamType(Clients)] /\ StreamsInv'
      <4>1. /\ Write(chan[w], n) \in FdStreamType(Clients)
            /\ StreamInv(Write(chan[w], n))
        BY WriteInv DEF StreamsInv
      <4> QED BY <3>2, <4>1 DEF StreamsInv
    <3> QED BY <1>6, <3>1, <3>2 DEF MasterWorkerStream, StreamEnded
  <2> QED BY <2>1, <2>2, <2>3, <2>4, <2>5
<1> QED BY <1>1, <1>2, <1>3, <1>4, <1>5, <1>6 DEF MasterStep

\* A worker's loop (runworker/mod.rs): only the read touches its socket.
LEMMA WorkerStepInv ==
  ASSUME IInv, NEW w \in Workers, WorkerStep(w)
  PROVE  IInv'
<1> USE DEF IInv, TypeOK, clientVars, masterVars, workerVars, logVars
<1>1. CASE WorkerStart(w)
  <2>0. Append(wbacklog, w) \in Seq(Workers) /\ Append(wbacklog, w) # <<>>
    BY AppendProperties DEF ClientsTypeOK
  <2>1. ClientsTypeOK' /\ wbacklog' # <<>>
    BY <1>1, <2>0 DEF WorkerStart, ClientsTypeOK
  <2>2. MasterTypeOK' /\ WorkersTypeOK'
    BY <1>1, Tokens DEF WorkerStart, MasterTypeOK, WorkersTypeOK, MasterPcs
  <2>3. EventsFounded' /\ StreamsInv' /\ chan' = chan
    BY <1>1, <2>1 DEF WorkerStart, EventsFounded, StreamsInv
  <2> QED BY <2>1, <2>2, <2>3
<1>2. CASE WorkerLoopHead(w)
  <2>1. ClientsTypeOK'
    BY <1>2 DEF WorkerLoopHead, ClientsTypeOK
  <2>2. MasterTypeOK'
    BY <1>2 DEF WorkerLoopHead, MasterTypeOK
  <2>3. WorkersTypeOK'
    <3>1. Opened(w) \subseteq Clients /\ Len(chan[w].taken) \in Nat
      <4>1. chan[w].taken \in Seq([header: Clients, fd: Clients])
        BY FieldTypes DEF Fields
      <4>2. Len(chan[w].taken) \in Nat
        BY <4>1, LenProperties
      <4>3. \A i \in 1 .. Len(chan[w].taken) :
              chan[w].taken[i] \in [header: Clients, fd: Clients]
        BY <4>1, ElementOfSeq
      <4> QED BY <4>2, <4>3 DEF Opened, NewMsgs
    <3>2. Armed(w) \subseteq LoopTks
      BY <3>1, Tokens DEF Armed
    <3> QED BY <1>2, <3>1, <3>2, Tokens DEF WorkerLoopHead, WorkersTypeOK, MasterPcs
  <2>4. EventsFounded' /\ StreamsInv' /\ chan' = chan
    BY <1>2 DEF WorkerLoopHead, EventsFounded, StreamsInv
  <2> QED BY <2>1, <2>2, <2>3, <2>4
<1>3. CASE WorkerPoll(w)
  <2>1. ClientsTypeOK' /\ MasterTypeOK'
    BY <1>3 DEF WorkerPoll, ClientsTypeOK, MasterTypeOK
  <2>2. WorkersTypeOK'
    BY <1>3 DEF WorkerPoll, WorkersTypeOK, MasterPcs
  <2>3. EventsFounded' /\ StreamsInv' /\ chan' = chan
    BY <1>3 DEF WorkerPoll, EventsFounded, StreamsInv
  <2> QED BY <2>1, <2>2, <2>3
<1>4. CASE WorkerStream(w)
  <2>1. ClientsTypeOK'
    BY <1>4 DEF WorkerStream, ClientsTypeOK
  <2>2. MasterTypeOK'
    BY <1>4, Tokens DEF WorkerStream, MasterTypeOK
  <2>3. WorkersTypeOK'
    BY <1>4 DEF WorkerStream, WorkerHandles, WorkerGoesOn, WorkersTypeOK, MasterPcs
  <2>4. EventsFounded'
    BY <1>4 DEF WorkerStream, EventsFounded
  <2>5. chan' \in [Workers -> FdStreamType(Clients)] /\ StreamsInv'
    <3>1. CASE chan' = chan
      BY <3>1 DEF StreamsInv
    <3>2. ASSUME NEW n, NEW k, NEW b \in BOOLEAN, ReadReturns(chan[w], n, k),
                 chan' = [chan EXCEPT ![w] = TakeOne(Receive(chan[w], n, k, b))]
          PROVE  chan' \in [Workers -> FdStreamType(Clients)] /\ StreamsInv'
      <4> DEFINE r == Receive(chan[w], n, k, b)
      <4>1. r \in FdStreamType(Clients) /\ StreamInv(r)
        BY <3>2, ReceiveInv DEF StreamsInv
      <4> HIDE DEF r
      <4>2. TakeOne(r) \in FdStreamType(Clients) /\ StreamInv(TakeOne(r))
        BY <4>1, TakeInv
      <4>3. chan' = [chan EXCEPT ![w] = TakeOne(r)]
        BY <3>2 DEF r
      <4> QED BY <4>2, <4>3 DEF StreamsInv
    <3> QED BY <1>4, <3>1, <3>2 DEF WorkerStream, FullAfter
  <2> QED BY <2>1, <2>2, <2>3, <2>4, <2>5
<1>5. CASE WorkerStreamEnds(w)
  <2>1. ClientsTypeOK'
    BY <1>5 DEF WorkerStreamEnds, ClientsTypeOK
  <2>2. MasterTypeOK' /\ WorkersTypeOK'
    BY <1>5, Tokens DEF WorkerStreamEnds, WorkerHandles, ExitWorker, MasterTypeOK,
                        WorkersTypeOK, MasterPcs
  <2>3. EventsFounded' /\ StreamsInv' /\ chan' = chan
    BY <1>5 DEF WorkerStreamEnds, EventsFounded, StreamsInv
  <2> QED BY <2>1, <2>2, <2>3
<1>6. ASSUME NEW c \in Clients, WorkerClientEvent(w, c)
      PROVE  IInv'
  <2>1. ClientsTypeOK' /\ MasterTypeOK'
    BY <1>6 DEF WorkerClientEvent, ClientsTypeOK, MasterTypeOK
  <2>2. WorkersTypeOK'
    BY <1>6 DEF WorkerClientEvent, WorkerHandles, WorkerGoesOn, WorkersTypeOK,
                MasterPcs
  <2>3. EventsFounded' /\ StreamsInv' /\ chan' = chan
    BY <1>6 DEF WorkerClientEvent, EventsFounded, StreamsInv
  <2> QED BY <2>1, <2>2, <2>3
<1>7. CASE WorkerCrash(w)
  <2>1. ClientsTypeOK'
    BY <1>7 DEF WorkerCrash, ClientsTypeOK
  <2>2. MasterTypeOK' /\ WorkersTypeOK'
    BY <1>7, Tokens DEF WorkerCrash, ExitWorker, MasterTypeOK, WorkersTypeOK, MasterPcs
  <2>3. EventsFounded' /\ StreamsInv' /\ chan' = chan
    BY <1>7 DEF WorkerCrash, EventsFounded, StreamsInv
  <2> QED BY <2>1, <2>2, <2>3
<1> QED BY <1>1, <1>2, <1>3, <1>4, <1>5, <1>6, <1>7 DEF WorkerStep

\* The invariant is inductive.
LEMMA NextInv == IInv /\ [Next]_vars => IInv'
<1> SUFFICES ASSUME IInv, [Next]_vars PROVE IInv'
  OBVIOUS
<1>1. CASE Next
  BY <1>1, ClientStepInv, MasterStepInv, WorkerStepInv DEF Next
<1>2. CASE UNCHANGED vars
  BY <1>2 DEF vars, clientVars, masterVars, workerVars, logVars, IInv, TypeOK,
              ClientsTypeOK, MasterTypeOK, WorkersTypeOK, EventsFounded, StreamsInv
<1> QED BY <1>1, <1>2

\* The inductive invariant holds throughout.
THEOREM Invariance == Spec => []IInv
  BY InitInv, NextInv, PTL DEF Spec

\* Type correctness of clients, master, workers and the sockets between them.
THEOREM TypeCorrect == Spec => []TypeOK
<1>1. IInv => TypeOK
  BY DEF IInv
<1> QED BY Invariance, <1>1, PTL

\* The sockets stay in order: counts, leading descriptors, what was taken.
THEOREM SocketsInOrder == Spec => []StreamsInv
<1>1. IInv => StreamsInv
  BY DEF IInv
<1> QED BY Invariance, <1>1, PTL

\* A worker never pairs a header with another client's descriptor, although
\* it pairs them by position alone (Inner::read).
THEOREM PairingCorrect == Spec => []HeaderMatchesDescriptor
<1>1. IInv => HeaderMatchesDescriptor
  BY InvImpliesPaired DEF IInv, TypeOK, StreamsInv, HeaderMatchesDescriptor
<1> QED BY Invariance, <1>1, PTL

\* A worker that has a whole header has its descriptor: dequeue does not come
\* back empty.
THEOREM DescriptorsInTime == Spec => []DescriptorArrivesFirst
<1>1. IInv => DescriptorArrivesFirst
  BY InvImpliesReady DEF IInv, TypeOK, StreamsInv, DescriptorArrivesFirst
<1> QED BY Invariance, <1>1, PTL
=============================================================================
