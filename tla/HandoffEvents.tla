--------------------------- MODULE HandoffEvents ---------------------------
(***************************************************************************)
(* Theorems about Handoff: what master registers, gives up and waits for.  *)
(* Every event finds its stream, no stream is given up while its peer is   *)
(* there or its descriptor is still to be sent, and master never sleeps on *)
(* headers it has not written.                                             *)
(*                                                                         *)
(* The properties are about handlers that run one event at a time while    *)
(* clients, workers and the kernel go on.  The invariant says what the     *)
(* maps and the lists of events have to do with each other between any two *)
(* of them: RegisteredInv and FreshInv of the tokens, DropInv of why a     *)
(* stream leaves, ArmedInv of the edges that are still to come.            *)
(***************************************************************************)
EXTENDS HandoffOwnership

\* The tokens of master's streams, wherever it keeps them.
Known == ioActions \cup toInsert \cup toRemove \cup mreg

\* An event is one of a registered descriptor, and that of one that is in
\* io_actions, or will be at the next head of the loop.
RegisteredInv ==
  /\ mready \cup mreadable \cup mwritable \subseteq mreg
  /\ {MainTk, UnixTk} \subseteq mreg
  /\ mreg \subseteq ioActions \cup toInsert
  /\ mreg \cap toRemove = {}
  /\ mpc # "batch" => mreadable \cup mwritable = {}
  /\ mpc = "poll" => toInsert \cup toRemove = {}
  /\ NoOrphanEvent

\* A connection that has not been accepted is unknown to the loop.
FreshInv ==
  /\ Distinct(backlog) /\ Distinct(wbacklog)
  /\ \A c \in Clients :
       /\ cpc[c] = "idle" => ~Occurs(c, backlog)
       /\ cpc[c] = "idle" \/ Occurs(c, backlog) => ClientTk(c) \notin Known
  /\ \A w \in Workers :
       /\ wpc[w] = "off" => ~Occurs(w, wbacklog)
       /\ wpc[w] = "off" \/ Occurs(w, wbacklog) =>
            WorkerTk(w) \notin Known /\ w \notin InPool

\* A stream is given up for a reason.
DropInv ==
  /\ \A c \in Clients : Queued(c) => ClientTk(c) \notin mreg
  /\ QueuedDescriptorOpen
  /\ \A c \in Clients :
       ClientTk(c) \in mreadable => arrived[c] > bytesRead[c] \/ Gone(c)
  /\ LiveClientNotDropped
  /\ \A w \in Workers : WorkerTk(w) \in mreadable => logIn[w] \/ Exited(w)
  /\ LiveWorkerNotDropped

\* A stream with RW interest will be heard of.
ArmedInv ==
  /\ \A w \in Workers : chan[w].full => Unread(chan[w]) > 0
  /\ \A w \in Workers : w \notin InPool => interest[w] = "RO"
  /\ mpc = "poll" => \A w \in InPool : interest[w] = "RW" <=> HasData(chan[w])
  /\ mpc # "dead" =>
       \A w \in InPool :
         ~Exited(w) /\ interest[w] = "RW" =>
           WorkerTk(w) \in mready \cup mwritable \/ Unread(chan[w]) > 0

-----------------------------------------------------------------------------
(* Tokens and backlogs *)

\* Tokens are told apart by kind and by whose they are.
LEMMA TokensDiffer ==
  /\ \A c, d \in Clients : ClientTk(c) = ClientTk(d) => c = d
  /\ \A v, w \in Workers : WorkerTk(v) = WorkerTk(w) => v = w
  /\ \A c \in Clients, w \in Workers : ClientTk(c) # WorkerTk(w)
  BY DEF ClientTk, WorkerTk

\* Accepting the first connection of a backlog takes it out of the backlog.
LEMMA AcceptFirst ==
  ASSUME NEW S, NEW s \in Seq(S), s # <<>>, Distinct(s)
  PROVE  /\ Head(s) \in S /\ Occurs(Head(s), s)
         /\ Distinct(Tail(s))
         /\ \A x : Occurs(x, Tail(s)) => Occurs(x, s) /\ x # Head(s)
<1>1. /\ Head(s) \in S /\ Head(s) = s[1]
      /\ Len(s) \in Nat /\ Len(s) >= 1 /\ Len(Tail(s)) = Len(s) - 1
      /\ \A i \in 1 .. Len(Tail(s)) : Tail(s)[i] = s[i + 1]
  BY HeadTailProperties, LenProperties, EmptySeq
<1>2. Distinct(Tail(s))
  BY <1>1 DEF Distinct
<1>3. ASSUME NEW x, Occurs(x, Tail(s))
      PROVE  Occurs(x, s) /\ x # Head(s)
  <2>1. PICK i \in 1 .. Len(Tail(s)) : Tail(s)[i] = x
    BY <1>3 DEF Occurs
  <2>2. i + 1 \in 1 .. Len(s) /\ i + 1 # 1 /\ s[i + 1] = x /\ 1 \in 1 .. Len(s)
    BY <1>1, <2>1
  <2> QED BY <1>1, <2>2 DEF Occurs, Distinct
<1>4. Occurs(Head(s), s)
  BY <1>1 DEF Occurs
<1> QED BY <1>1, <1>2, <1>3, <1>4

\* Connecting puts a connection at the end of one.
LEMMA ConnectLast ==
  ASSUME NEW S, NEW s \in Seq(S), NEW x \in S, Distinct(s), ~Occurs(x, s)
  PROVE  /\ Distinct(Append(s, x))
         /\ \A y : Occurs(y, Append(s, x)) => Occurs(y, s) \/ y = x
<1>1. /\ Len(s) \in Nat /\ Len(Append(s, x)) = Len(s) + 1
      /\ \A i \in 1 .. Len(s) : Append(s, x)[i] = s[i]
      /\ Append(s, x)[Len(s) + 1] = x
  BY AppendProperties, LenProperties
<1>2. \A i \in 1 .. Len(Append(s, x)) : i \in 1 .. Len(s) \/ i = Len(s) + 1
  BY <1>1
<1>3. Distinct(Append(s, x))
  BY <1>1, <1>2 DEF Distinct, Occurs
<1>4. \A y : Occurs(y, Append(s, x)) => Occurs(y, s) \/ y = x
  BY <1>1, <1>2 DEF Occurs
<1> QED BY <1>3, <1>4

-----------------------------------------------------------------------------
(* Steps of clients, workers and the kernel *)

\* What the others do to master between two of its own steps: they put tokens
\* on the ready list, and what has arrived or ended stays so.
OthersStep ==
  /\ UNCHANGED <<mpc, mreadable, mwritable, mreg, ioActions, toInsert, toRemove,
                 bytesRead, newRequests, pool, lastSend, interest>>
  /\ mready \subseteq mready'
  /\ mready' \subseteq mready \cup mreg \cup {MainTk, UnixTk}
  /\ \A c \in Clients : /\ arrived[c] <= arrived'[c]
                        /\ Gone(c) => Gone(c)'
                        /\ (cpc[c] = "idle")' => cpc[c] = "idle"
  /\ \A w \in Workers : /\ Exited(w) => Exited(w)'
                        /\ logIn[w] => logIn'[w]
                        /\ (wpc[w] = "off")' => wpc[w] = "off"

\* Steps of a client only do that to master.
LEMMA ClientStepsOthers ==
  ASSUME IInv, NEW c \in Clients, ClientStep(c)
  PROVE  OthersStep /\ chan' = chan
<1> USE DEF clientVars, masterVars, workerVars, logVars
<1>t. /\ cpc \in [Clients -> {"idle", "wait", "session", "gone", "failed"}]
      /\ arrived \in [Clients -> 0 .. HeaderSize]
      /\ \A d \in Clients : arrived[d] \in Nat
  BY Counts DEF IInv, TypeOK, ClientsTypeOK
<1>1. /\ UNCHANGED <<mpc, mreadable, mwritable, mreg, ioActions, toInsert, toRemove,
                     bytesRead, newRequests, pool, lastSend, interest, chan>>
      /\ UNCHANGED <<wpc, logIn>>
  BY DEF ClientStep, ClientConnect, HelloArrives, ClientEstablished, ClientCloses,
         ClientLearnsClose
<1>2. mready \subseteq mready' /\ mready' \subseteq mready \cup mreg \cup {MainTk}
  BY DEF ClientStep, ClientConnect, HelloArrives, ClientEstablished, ClientCloses,
         ClientLearnsClose, Edge
<1>3. \A d \in Clients : /\ Gone(d) => Gone(d)'
                         /\ (cpc[d] = "idle")' => cpc[d] = "idle"
  BY <1>t DEF ClientStep, ClientConnect, HelloArrives, ClientEstablished,
              ClientCloses, ClientLearnsClose, Gone
<1>4. \A d \in Clients : arrived[d] <= arrived'[d]
  <2>1. CASE arrived' = arrived
    BY <1>t, <2>1
  <2>2. ASSUME NEW n \in HelloCuts \cup {HeaderSize}, HelloArrives(c, n)
        PROVE  \A d \in Clients : arrived[d] <= arrived'[d]
    <3>1. n > arrived[c] /\ arrived' = [arrived EXCEPT ![c] = n]
      BY <2>2 DEF HelloArrives
    <3>2. n \in Nat
      <4>1. HelloCuts \subseteq 1 .. HeaderSize - 1
        BY HandoffAssumption
      <4> QED BY <4>1 DEF HeaderSize
    <3> QED BY <3>1, <3>2, <1>t
  <2> QED BY <2>1, <2>2 DEF ClientStep, ClientConnect, ClientEstablished,
                            ClientCloses, ClientLearnsClose
<1> QED BY <1>1, <1>2, <1>3, <1>4 DEF OthersStep, Exited

\* And so do those of a worker.
LEMMA WorkerStepsOthers ==
  ASSUME IInv, NEW w \in Workers, WorkerStep(w)
  PROVE  OthersStep
<1> USE DEF clientVars, masterVars, workerVars, logVars
<1>t. /\ wpc \in [Workers -> MasterPcs \cup {"off"}]
      /\ logIn \in [Workers -> BOOLEAN]
      /\ \A c \in Clients : arrived[c] \in Nat
  BY Counts DEF IInv, TypeOK, WorkersTypeOK
<1>1. /\ UNCHANGED <<mpc, mreadable, mwritable, mreg, ioActions, toInsert, toRemove,
                     bytesRead, newRequests, pool, lastSend, interest>>
      /\ UNCHANGED <<cpc, arrived>>
  BY DEF WorkerStep, WorkerStart, WorkerLoopHead, WorkerPoll, WorkerStream,
         WorkerStreamEnds, WorkerClientEvent, WorkerCrash
<1>2. mready \subseteq mready' /\ mready' \subseteq mready \cup mreg \cup {UnixTk}
  BY DEF WorkerStep, WorkerStart, WorkerLoopHead, WorkerPoll, WorkerStream,
         WorkerStreamEnds, WorkerClientEvent, WorkerCrash, ExitWorker, Edge
<1>3. \A v \in Workers : /\ Exited(v) => Exited(v)'
                         /\ (wpc[v] = "off")' => wpc[v] = "off"
  BY <1>t DEF WorkerStep, WorkerStart, WorkerLoopHead, WorkerPoll, WorkerStream,
         WorkerStreamEnds, WorkerClientEvent, WorkerCrash, ExitWorker, Exited,
         WorkerHandles, WorkerGoesOn
<1>4. \A v \in Workers : logIn[v] => logIn'[v]
  BY <1>t DEF WorkerStep, WorkerStart, WorkerLoopHead, WorkerPoll, WorkerStream,
         WorkerStreamEnds, WorkerClientEvent, WorkerCrash
<1> QED BY <1>1, <1>2, <1>3, <1>4, <1>t DEF OthersStep, Gone

-----------------------------------------------------------------------------
(* Events are those of registered streams *)

\* At the start only the two listeners are registered.
LEMMA InitRegistered == Init => RegisteredInv /\ FreshInv
<1> SUFFICES ASSUME Init PROVE RegisteredInv /\ FreshInv
  OBVIOUS
<1>1. RegisteredInv
  BY DEF Init, RegisteredInv, NoOrphanEvent
<1>2. FreshInv
  BY EmptySeq, Tokens DEF Init, FreshInv, Distinct, Occurs, Known, InPool
<1> QED BY <1>1, <1>2

\* The others add registered tokens to the ready list, and a connection to a
\* backlog before master has heard of it.
LEMMA OthersRegistered ==
  ASSUME IInv, RegisteredInv, FreshInv, OthersStep,
         \/ UNCHANGED <<backlog, wbacklog>>
         \/ \E c \in Clients : ClientConnect(c)
         \/ \E w \in Workers : WorkerStart(w)
  PROVE  RegisteredInv' /\ FreshInv'
<1>t. /\ backlog \in Seq(Clients) /\ wbacklog \in Seq(Workers)
      /\ cpc \in [Clients -> {"idle", "wait", "session", "gone", "failed"}]
      /\ wpc \in [Workers -> MasterPcs \cup {"off"}]
  BY DEF IInv, TypeOK, ClientsTypeOK, WorkersTypeOK
<1>1. RegisteredInv'
  BY DEF OthersStep, RegisteredInv, NoOrphanEvent
<1>2. Known' = Known /\ InPool' = InPool
  BY DEF OthersStep, Known, InPool
<1>3. CASE UNCHANGED <<backlog, wbacklog>>
  <2>1. FreshInv'
    BY <1>2, <1>3 DEF OthersStep, FreshInv
  <2> QED BY <1>1, <2>1
<1>4. ASSUME NEW c \in Clients, ClientConnect(c)
      PROVE  FreshInv'
  <2>1. /\ cpc[c] = "idle" /\ cpc'[c] = "wait" /\ backlog' = Append(backlog, c)
        /\ wbacklog' = wbacklog
    BY <1>4, <1>t DEF ClientConnect
  <2>2. /\ Distinct(backlog') /\ ClientTk(c) \notin Known
        /\ \A d : Occurs(d, backlog') => Occurs(d, backlog) \/ d = c
    BY <2>1, <1>t, ConnectLast DEF FreshInv
  <2> QED BY <1>2, <2>1, <2>2 DEF OthersStep, FreshInv
<1>5. ASSUME NEW w \in Workers, WorkerStart(w)
      PROVE  FreshInv'
  <2>1. /\ wpc[w] = "off" /\ wpc'[w] = "top" /\ wbacklog' = Append(wbacklog, w)
        /\ backlog' = backlog
    BY <1>5, <1>t DEF WorkerStart, clientVars
  <2>2. /\ Distinct(wbacklog') /\ WorkerTk(w) \notin Known /\ w \notin InPool
        /\ \A v : Occurs(v, wbacklog') => Occurs(v, wbacklog) \/ v = w
    BY <2>1, <1>t, ConnectLast DEF FreshInv
  <2> QED BY <1>2, <2>1, <2>2 DEF OthersStep, FreshInv
<1> QED BY <1>1, <1>3, <1>4, <1>5

\* What master knows of an event when it comes to handle it.
LEMMA HandledEvent ==
  ASSUME IInv, RegisteredInv, NEW tk, HandleEvent(tk)
  PROVE  /\ mpc = "batch" /\ mpc' \in {"top", "batch"}
         /\ tk \in mreg /\ tk \in ioActions /\ tk \notin toRemove
         /\ mreadable' = mreadable \ {tk} /\ mwritable' = mwritable \ {tk}
         /\ mpc' # "batch" => mreadable' \cup mwritable' = {}
  BY DEF RegisteredInv, NoOrphanEvent, HandleEvent

\* What stays fresh: a step of master that leaves the backlogs alone, and
\* what it knows but for what it knew or has accepted.
LEMMA FreshKept ==
  ASSUME FreshInv, UNCHANGED <<cpc, wpc, backlog, wbacklog>>,
         Known' \subseteq Known, InPool' = InPool
  PROVE  FreshInv'
  BY DEF FreshInv

\* The pool with one more worker at its end.
LEMMA JoinsPool ==
  ASSUME IInv, NEW w \in Workers, pool' = Append(pool, w)
  PROVE  InPool' = InPool \cup {w}
<1>1. /\ Len(pool) \in Nat /\ Len(pool') = Len(pool) + 1
      /\ \A i \in 1 .. Len(pool) : pool'[i] = pool[i]
      /\ pool'[Len(pool) + 1] = w
  BY AppendProperties, LenProperties DEF IInv, TypeOK, MasterTypeOK
<1>2. /\ \A i \in 1 .. Len(pool') : i \in 1 .. Len(pool) \/ i = Len(pool) + 1
      /\ \A i \in 1 .. Len(pool) : i \in 1 .. Len(pool')
      /\ Len(pool) + 1 \in 1 .. Len(pool')
  BY <1>1
<1> QED BY <1>1, <1>2 DEF InPool

\* The head of the loop forgets what was to be removed, and io_actions takes
\* in what was to be inserted.
LEMMA HeadRegistered ==
  ASSUME IInv, RegisteredInv, FreshInv, MasterLoopHead
  PROVE  RegisteredInv' /\ FreshInv'
<1>1. /\ mpc = "top" /\ mpc' \in {"poll", "dead"}
      /\ ioActions' = (ioActions \ toRemove) \cup toInsert
      /\ toRemove' = {} /\ toInsert' = {} /\ mreg' = mreg
      /\ mreadable' = mreadable /\ mwritable' = mwritable
      /\ UNCHANGED <<cpc, wpc, backlog, wbacklog, pool>>
  BY DEF MasterLoopHead, ActionsNow, clientVars
<1>2. mready' \subseteq mreg
  BY DEF MasterLoopHead, RegisteredInv
<1>3. RegisteredInv'
  BY <1>1, <1>2 DEF RegisteredInv, NoOrphanEvent
<1>4. Known' \subseteq Known /\ InPool' = InPool
  BY <1>1 DEF Known, InPool
<1> QED BY <1>1, <1>3, <1>4, FreshKept

\* A poll reports registered tokens, and those are in io_actions.
LEMMA PollRegistered ==
  ASSUME IInv, RegisteredInv, FreshInv, MasterPoll
  PROVE  RegisteredInv' /\ FreshInv'
<1>1. /\ mpc = "poll"
      /\ mreadable' \subseteq mready /\ mwritable' \subseteq mready /\ mready' = {}
      /\ mpc' # "poll" /\ mpc' # "batch" => mreadable' \cup mwritable' = {}
      /\ UNCHANGED <<mreg, ioActions, toInsert, toRemove>>
      /\ UNCHANGED <<cpc, wpc, backlog, wbacklog, pool>>
  BY DEF MasterPoll, clientVars, workerVars
<1>2. RegisteredInv'
  BY <1>1 DEF RegisteredInv, NoOrphanEvent, MasterPoll
<1>3. Known' \subseteq Known /\ InPool' = InPool
  BY <1>1 DEF Known, InPool
<1> QED BY <1>1, <1>2, <1>3, FreshKept

\* A client is accepted into mreg and toInsert under a token nobody has.
LEMMA AcceptClientRegistered ==
  ASSUME IInv, RegisteredInv, FreshInv, MasterAcceptClient
  PROVE  RegisteredInv' /\ FreshInv'
<1>h. HandleEvent(MainTk) /\ MainTk \in mreadable /\ backlog # <<>>
  BY HandleEventInv DEF MasterAcceptClient, IInv, EventsFounded
<1>1. /\ mpc = "batch" /\ mpc' \in {"top", "batch"}
      /\ mreadable' = mreadable \ {MainTk} /\ mwritable' = mwritable \ {MainTk}
      /\ mpc' # "batch" => mreadable' \cup mwritable' = {}
  BY <1>h, HandledEvent
<1>2. /\ UNCHANGED <<ioActions, toRemove, cpc, wpc, wbacklog, pool>>
      /\ InPool' = InPool
  BY DEF MasterAcceptClient, workerVars, InPool
<1>3. CASE UNCHANGED <<backlog, toInsert, mreg, mready>>
  <2>1. Known' = Known
    BY <1>2, <1>3 DEF Known
  <2>2. RegisteredInv'
    BY <1>1, <1>2, <1>3 DEF RegisteredInv, NoOrphanEvent
  <2> QED BY <1>2, <1>3, <2>1, <2>2, FreshKept
<1>4. CASE FdsOpen < MaxFds
  <2> DEFINE c == Head(backlog)
  <2>1. /\ backlog' = Tail(backlog) /\ toInsert' = toInsert \cup {ClientTk(c)}
        /\ mreg' = mreg \cup {ClientTk(c)}
        /\ mready' \subseteq mready \cup {ClientTk(c), MainTk}
    BY <1>4 DEF MasterAcceptClient, Rearmed
  <2>2. /\ c \in Clients /\ Occurs(c, backlog) /\ Distinct(Tail(backlog))
        /\ \A x : Occurs(x, Tail(backlog)) => Occurs(x, backlog) /\ x # c
    <3>1. backlog \in Seq(Clients) /\ Distinct(backlog)
      BY DEF IInv, TypeOK, ClientsTypeOK, FreshInv
    <3> QED BY <1>h, <3>1, AcceptFirst
  <2> HIDE DEF c
  <2>3. ClientTk(c) \notin Known
    BY <2>2 DEF FreshInv
  <2>4. RegisteredInv'
    BY <1>1, <1>2, <2>1, <2>3 DEF RegisteredInv, NoOrphanEvent, Known
  <2>5. Known' = Known \cup {ClientTk(c)}
    BY <1>2, <2>1 DEF Known
  <2>6. \A d \in Clients : cpc[d] = "idle" \/ Occurs(d, backlog') => d # c
    BY <2>1, <2>2 DEF FreshInv
  <2>7. \A d \in Clients :
          /\ (cpc[d] = "idle")' => ~Occurs(d, backlog')
          /\ (cpc[d] = "idle")' \/ Occurs(d, backlog') => ClientTk(d) \notin Known'
    BY <1>2, <2>1, <2>2, <2>5, <2>6, TokensDiffer DEF FreshInv
  <2>8. \A w \in Workers : WorkerTk(w) \notin Known => WorkerTk(w) \notin Known'
    BY <2>2, <2>5, TokensDiffer
  <2> QED BY <1>2, <2>1, <2>2, <2>4, <2>7, <2>8 DEF FreshInv
<1> QED BY <1>3, <1>4 DEF MasterAcceptClient

\* A client's stream leaves mreg, and its events, when it is done or over.
LEMMA ReadClientRegistered ==
  ASSUME IInv, RegisteredInv, FreshInv, NEW c \in Clients, MasterReadClient(c)
  PROVE  RegisteredInv' /\ FreshInv'
<1>h. HandleEvent(ClientTk(c))
  BY DEF MasterReadClient
<1>1. /\ mpc = "batch" /\ mpc' \in {"top", "batch"} /\ ClientTk(c) \in ioActions
      /\ ClientTk(c) \in mreg
      /\ mreadable' = mreadable \ {ClientTk(c)}
      /\ mwritable' = mwritable \ {ClientTk(c)}
      /\ mpc' # "batch" => mreadable' \cup mwritable' = {}
  BY <1>h, HandledEvent
<1>2. /\ UNCHANGED <<ioActions, toInsert, cpc, wpc, backlog, wbacklog, pool>>
      /\ InPool' = InPool
  BY DEF MasterReadClient, clientVars, workerVars, InPool
<1>3. /\ \/ mreg' = mreg /\ mready' = mready /\ toRemove' = toRemove
         \/ /\ mreg' = mreg \ {ClientTk(c)} /\ mready' = mready \ {ClientTk(c)}
            /\ toRemove' \subseteq toRemove \cup {ClientTk(c)}
  BY DEF MasterReadClient
<1>4. RegisteredInv'
  BY <1>1, <1>2, <1>3, Tokens DEF RegisteredInv, NoOrphanEvent
<1>5. Known' \subseteq Known
  BY <1>1, <1>2, <1>3 DEF Known
<1> QED BY <1>2, <1>4, <1>5, FreshKept

\* A worker is accepted into mreg, io_actions and the pool at once.
LEMMA AcceptWorkerRegistered ==
  ASSUME IInv, RegisteredInv, FreshInv, MasterAcceptWorker
  PROVE  RegisteredInv' /\ FreshInv'
<1>h. HandleEvent(UnixTk) /\ UnixTk \in mreadable /\ wbacklog # <<>>
  BY HandleEventInv DEF MasterAcceptWorker, IInv, EventsFounded
<1>1. /\ mpc = "batch" /\ mpc' \in {"top", "batch"}
      /\ mreadable' = mreadable \ {UnixTk} /\ mwritable' = mwritable \ {UnixTk}
      /\ mpc' # "batch" => mreadable' \cup mwritable' = {}
  BY <1>h, HandledEvent
<1>2. UNCHANGED <<toInsert, toRemove, cpc, wpc, backlog>>
  BY DEF MasterAcceptWorker, clientVars, workerVars
<1>3. CASE UNCHANGED <<wbacklog, pool, ioActions, mreg, mready>>
  <2>1. Known' = Known /\ InPool' = InPool
    BY <1>2, <1>3 DEF Known, InPool
  <2>2. RegisteredInv'
    BY <1>1, <1>2, <1>3 DEF RegisteredInv, NoOrphanEvent
  <2> QED BY <1>2, <1>3, <2>1, <2>2, FreshKept
<1>4. CASE FdsOpen < MaxFds
  <2> DEFINE w == Head(wbacklog)
  <2>1. /\ wbacklog' = Tail(wbacklog) /\ ioActions' = ioActions \cup {WorkerTk(w)}
        /\ mreg' = mreg \cup {WorkerTk(w)} /\ pool' = Append(pool, w)
        /\ mready' \subseteq mready \cup {WorkerTk(w)}
    BY <1>4 DEF MasterAcceptWorker
  <2>2. /\ w \in Workers /\ Occurs(w, wbacklog) /\ Distinct(Tail(wbacklog))
        /\ \A x : Occurs(x, Tail(wbacklog)) => Occurs(x, wbacklog) /\ x # w
    <3>1. wbacklog \in Seq(Workers) /\ Distinct(wbacklog)
      BY DEF IInv, TypeOK, ClientsTypeOK, FreshInv
    <3> QED BY <1>h, <3>1, AcceptFirst
  <2> HIDE DEF w
  <2>3. WorkerTk(w) \notin Known
    BY <2>2 DEF FreshInv
  <2>4. RegisteredInv'
    BY <1>1, <1>2, <2>1, <2>3 DEF RegisteredInv, NoOrphanEvent, Known
  <2>5. Known' = Known \cup {WorkerTk(w)}
    BY <1>2, <2>1 DEF Known
  <2>6. InPool' = InPool \cup {w}
    BY <2>1, <2>2, JoinsPool
  <2>7. \A v \in Workers : wpc[v] = "off" \/ Occurs(v, wbacklog') => v # w
    BY <2>1, <2>2 DEF FreshInv
  <2>8. \A v \in Workers :
          /\ (wpc[v] = "off")' => ~Occurs(v, wbacklog')
          /\ (wpc[v] = "off")' \/ Occurs(v, wbacklog') =>
               WorkerTk(v) \notin Known' /\ v \notin InPool'
    BY <1>2, <2>1, <2>2, <2>5, <2>6, <2>7, TokensDiffer DEF FreshInv
  <2>9. \A c \in Clients : ClientTk(c) \notin Known => ClientTk(c) \notin Known'
    BY <2>2, <2>5, TokensDiffer
  <2> QED BY <1>2, <2>1, <2>2, <2>4, <2>8, <2>9 DEF FreshInv
<1> QED BY <1>3, <1>4 DEF MasterAcceptWorker

\* A worker's stream leaves mreg, and its events, when it has ended.
LEMMA WorkerStreamRegistered ==
  ASSUME IInv, RegisteredInv, FreshInv, NEW w \in Workers, MasterWorkerStream(w)
  PROVE  RegisteredInv' /\ FreshInv'
<1>h. HandleEvent(WorkerTk(w))
  BY DEF MasterWorkerStream
<1>1. /\ mpc = "batch" /\ mpc' \in {"top", "batch"} /\ WorkerTk(w) \in ioActions
      /\ WorkerTk(w) \in mreg
      /\ mreadable' = mreadable \ {WorkerTk(w)}
      /\ mwritable' = mwritable \ {WorkerTk(w)}
      /\ mpc' # "batch" => mreadable' \cup mwritable' = {}
  BY <1>h, HandledEvent
<1>2. /\ UNCHANGED <<ioActions, toInsert, cpc, wpc, backlog, wbacklog, pool>>
      /\ InPool' = InPool
  BY DEF MasterWorkerStream, clientVars, InPool
<1>3. /\ \/ mreg' = mreg /\ mready' = mready /\ toRemove' = toRemove
         \/ /\ mreg' = mreg \ {WorkerTk(w)} /\ mready' = mready \ {WorkerTk(w)}
            /\ toRemove' = toRemove \cup {WorkerTk(w)}
  BY DEF MasterWorkerStream
<1>4. RegisteredInv'
  BY <1>1, <1>2, <1>3, Tokens DEF RegisteredInv, NoOrphanEvent
<1>5. Known' \subseteq Known
  BY <1>1, <1>2, <1>3 DEF Known
<1> QED BY <1>2, <1>4, <1>5, FreshKept

\* Registered streams and fresh connections stay so in every step.
LEMMA NextRegistered ==
  IInv /\ RegisteredInv /\ FreshInv /\ [Next]_vars => RegisteredInv' /\ FreshInv'
<1> SUFFICES ASSUME IInv, RegisteredInv, FreshInv, [Next]_vars
             PROVE  RegisteredInv' /\ FreshInv'
  OBVIOUS
<1>1. ASSUME NEW c \in Clients, ClientStep(c)
      PROVE  RegisteredInv' /\ FreshInv'
  <2>1. ClientConnect(c) \/ UNCHANGED <<backlog, wbacklog>>
    BY <1>1 DEF ClientStep, HelloArrives, ClientEstablished, ClientCloses,
                ClientLearnsClose
  <2> QED BY <1>1, <2>1, ClientStepsOthers, OthersRegistered
<1>2. ASSUME NEW w \in Workers, WorkerStep(w)
      PROVE  RegisteredInv' /\ FreshInv'
  <2>1. WorkerStart(w) \/ UNCHANGED <<backlog, wbacklog>>
    BY <1>2 DEF WorkerStep, WorkerLoopHead, WorkerPoll, WorkerStream,
                WorkerStreamEnds, WorkerClientEvent, WorkerCrash, clientVars
  <2> QED BY <1>2, <2>1, WorkerStepsOthers, OthersRegistered
<1>3. CASE UNCHANGED vars
  <2>1. Known' = Known /\ InPool' = InPool
    BY <1>3 DEF Known, InPool, vars, masterVars
  <2>2. RegisteredInv'
    BY <1>3 DEF RegisteredInv, NoOrphanEvent, vars, masterVars
  <2>3. UNCHANGED <<cpc, wpc, backlog, wbacklog>>
    BY <1>3 DEF vars, clientVars, workerVars
  <2> QED BY <2>1, <2>2, <2>3, FreshKept
<1>4. CASE MasterStep
  BY <1>4, HeadRegistered, PollRegistered, AcceptClientRegistered,
     ReadClientRegistered, AcceptWorkerRegistered, WorkerStreamRegistered
     DEF MasterStep
<1> QED BY <1>1, <1>2, <1>3, <1>4 DEF Next

-----------------------------------------------------------------------------
(* Streams are given up for a reason *)

\* A write carries every descriptor that was queued, and a read none.
LEMMA WriteEmptiesQueue ==
  ASSUME NEW s \in FdStreamType(Clients), NEW n
  PROVE  Len(Write(s, n).at) = Len(s.fds)
<1>1. Write(s, n).at = [i \in 1 .. Len(s.fds) |->
                          IF i \in DOMAIN s.at THEN s.at[i] ELSE s.wrote]
  BY DEF Write, FdStreamType
<1>2. Len(s.fds) \in Nat
  BY FieldTypes DEF Fields
<1> QED BY <1>1, <1>2

\* A read moves only the worker's counts.
LEMMA ReadKeepsQueue ==
  ASSUME NEW s \in FdStreamType(Clients), NEW n, NEW k, NEW b
  PROVE  /\ TakeOne(Receive(s, n, k, b)).at = s.at
         /\ TakeOne(Receive(s, n, k, b)).hdrs = s.hdrs
         /\ TakeOne(Receive(s, n, k, b)).wrote = s.wrote
<1> DEFINE r == Receive(s, n, k, b)
<1>1. /\ r.at = s.at /\ r.hdrs = s.hdrs /\ r.wrote = s.wrote
      /\ {"at", "hdrs", "wrote"} \subseteq DOMAIN r
  BY DEF FdStreamType, Receive
<1> HIDE DEF r
<1>2. /\ TakeOne(r).at = r.at /\ TakeOne(r).hdrs = r.hdrs
      /\ TakeOne(r).wrote = r.wrote
  BY <1>1 DEF TakeOne
<1> QED BY <1>1, <1>2 DEF r

\* A read leaves a full socket full only when it leaves bytes in it.
LEMMA ReadLeavesFull ==
  ASSUME NEW s \in FdStreamType(Clients), NEW n \in 1 .. Unread(s), NEW k,
         NEW b \in FullAfter(s, n)
  PROVE  LET t == TakeOne(Receive(s, n, k, b)) IN t.full => Unread(t) > 0
<1> DEFINE r == Receive(s, n, k, b)
           t == TakeOne(r)
<1>n. s.wrote \in Nat /\ s.read \in Nat
  BY FieldTypes DEF Fields
<1>1. /\ r.full = b /\ r.read = s.read + n /\ r.wrote = s.wrote
      /\ {"full", "read", "wrote"} \subseteq DOMAIN r
  BY DEF FdStreamType, Receive
<1> HIDE DEF r
<1>2. t.full = r.full /\ t.read = r.read /\ t.wrote = r.wrote
  BY <1>1 DEF TakeOne
<1> HIDE DEF t
<1>3. b => n < Unread(s)
  BY DEF FullAfter
<1>4. ASSUME t.full PROVE Unread(t) > 0
  BY <1>1, <1>2, <1>3, <1>4, <1>n DEF Unread
<1> QED BY <1>4 DEF t, r

\* A descriptor is queued by the read that completes its header, and from
\* then on only waits to be sent.
LEMMA QueuedByRead ==
  ASSUME IInv, [Next]_vars, NEW c \in Clients, Queued(c)'
  PROVE  \/ Queued(c)
         \/ /\ MasterReadClient(c)
            /\ arrived[c] > bytesRead[c] /\ BytesNow(c) = HeaderSize
<1>t. chan \in [Workers -> FdStreamType(Clients)] /\ newRequests \in Seq(Clients)
  BY Counts DEF IInv, TypeOK, MasterTypeOK
<1>1. ASSUME Occurs(c, newRequests)
      PROVE  Queued(c)
  BY <1>1 DEF Occurs, Queued
<1>2. ASSUME Occurs(c, newRequests')
      PROVE  \/ Occurs(c, newRequests)
             \/ /\ MasterReadClient(c)
                /\ arrived[c] > bytesRead[c] /\ BytesNow(c) = HeaderSize
  <2>1. CASE newRequests' = newRequests
    BY <1>2, <2>1
  <2>2. CASE newRequests' = <<>>
    BY <1>2, <2>2, EmptySeq DEF Occurs
  <2>3. ASSUME NEW d \in Clients, MasterReadClient(d), newRequests' # newRequests
        PROVE  d = c \/ Occurs(c, newRequests)
    <3>1. newRequests' = Append(newRequests, d)
      BY <2>3 DEF MasterReadClient
    <3>2. /\ Len(newRequests) \in Nat /\ Len(newRequests') = Len(newRequests) + 1
          /\ \A i \in 1 .. Len(newRequests) : newRequests'[i] = newRequests[i]
          /\ newRequests'[Len(newRequests) + 1] = d
      BY <3>1, <1>t, AppendProperties, LenProperties
    <3>3. \A i \in 1 .. Len(newRequests') :
            i \in 1 .. Len(newRequests) \/ i = Len(newRequests) + 1
      BY <3>2
    <3> QED BY <1>2, <3>2, <3>3 DEF Occurs
  <2>4. ASSUME MasterReadClient(c), newRequests' # newRequests
        PROVE  arrived[c] > bytesRead[c] /\ BytesNow(c) = HeaderSize
    BY <2>4 DEF MasterReadClient
  <2>5. CASE MasterLoopHead
    BY <2>1, <2>2, <2>5 DEF MasterLoopHead, Remaining
  <2> QED BY <2>1, <2>3, <2>4, <2>5, QuietSteps DEF Quiet
<1>3. ASSUME NEW w \in Workers, NEW i \in Len(chan'[w].at) + 1 .. Len(chan'[w].fds),
             chan'[w].fds[i] = c
      PROVE  Queued(c)
  <2>1. Fields(Clients, chan[w])
    BY <1>t, FieldTypes
  <2>2. CASE chan'[w].at = chan[w].at /\ chan'[w].fds = chan[w].fds
    BY <1>3, <2>2 DEF Queued
  <2>3. ASSUME NEW n \in 1 .. OutLen(chan[w]), chan'[w] = Write(chan[w], n)
        PROVE  FALSE
    <3>1. Len(Write(chan[w], n).at) = Len(chan[w].fds) /\ Write(chan[w], n).fds = chan[w].fds
      BY <1>t, WriteEmptiesQueue, WriteKeeps
    <3>2. Len(chan'[w].at) = Len(chan[w].fds) /\ chan'[w].fds = chan[w].fds
      BY <2>3, <3>1
    <3> QED BY <1>3, <2>1, <3>2 DEF Fields
  <2>4. ASSUME NEW n, NEW k, NEW b, chan'[w] = TakeOne(Receive(chan[w], n, k, b))
        PROVE  chan'[w].at = chan[w].at /\ chan'[w].fds = chan[w].fds
    <3>1. /\ TakeOne(Receive(chan[w], n, k, b)).at = chan[w].at
          /\ TakeOne(Receive(chan[w], n, k, b)).fds = chan[w].fds
      <4>1. TakeOne(Receive(chan[w], n, k, b)).at = chan[w].at
        BY <1>t, ReadKeepsQueue
      <4>2. TakeOne(Receive(chan[w], n, k, b)).fds = chan[w].fds
        BY <1>t, ReadKeeps
      <4> QED BY <4>1, <4>2
    <3> QED BY <2>4, <3>1
  <2>5. CASE MasterLoopHead /\ pool # <<>>
    <3>1. PICK v \in Workers, a \in Seq(Clients) :
            /\ v = pool[NextSend + 1]
            /\ Len(a) <= Len(newRequests)
            /\ \A j \in 1 .. Len(a) : a[j] = newRequests[j]
            /\ chan' = [chan EXCEPT ![v] = Dispatch(chan[v], newRequests)]
            /\ chan'[v].fds = chan[v].fds \o a
            /\ \A u \in Workers \ {v} : chan'[u] = chan[u]
      BY <2>5, DispatchMoves
    <3>2. CASE w # v
      BY <2>2, <3>1, <3>2
    <3>3. CASE w = v
      <4>1. chan'[w].at = chan[w].at
        <5>1. Dispatch(chan[w], newRequests).at = chan[w].at
          BY <1>t DEF Dispatch, FdStreamType
        <5> QED BY <3>1, <3>3, <5>1
      <4> DEFINE m == Len(chan[w].fds)
      <4>2. /\ m \in Nat /\ Len(a) \in Nat /\ Len(newRequests) \in Nat
            /\ Len(chan[w].at) \in Nat /\ chan[w].fds \in Seq(Clients)
        BY <1>t, <2>1, LenProperties DEF Fields
      <4>3. /\ Len(chan'[w].fds) = m + Len(a)
            /\ \A j \in 1 .. m : chan'[w].fds[j] = chan[w].fds[j]
            /\ \A j \in m + 1 .. m + Len(a) : chan'[w].fds[j] = a[j - m]
        <5>1. chan'[w].fds = chan[w].fds \o a
          BY <3>1, <3>3
        <5> QED BY <4>2, <5>1, ConcatProperties
      <4>4. m = Len(chan[w].fds)
        OBVIOUS
      <4> HIDE DEF m
      <4>5. CASE i <= m
        <5>1. i \in 1 .. m /\ i \in Len(chan[w].at) + 1 .. Len(chan[w].fds)
          BY <1>3, <4>1, <4>2, <4>4, <4>5
        <5> QED BY <1>3, <4>3, <5>1 DEF Queued
      <4>6. CASE i > m
        <5>1. /\ i \in m + 1 .. m + Len(a) /\ i - m \in 1 .. Len(a)
              /\ i - m \in 1 .. Len(newRequests)
          <6>1. i \in Int /\ i <= m + Len(a)
            BY <1>3, <4>1, <4>2, <4>3
          <6> QED BY <3>1, <4>2, <4>6, <6>1
        <5>2. newRequests[i - m] = c
          BY <1>3, <3>1, <4>3, <5>1
        <5> QED BY <5>1, <5>2 DEF Queued
      <4> QED BY <1>3, <4>1, <4>2, <4>5, <4>6
    <3> QED BY <3>2, <3>3
  <2>6. CASE MasterLoopHead /\ pool = <<>>
    BY <2>2, <2>6 DEF MasterLoopHead, Dispatched
  <2> QED BY <2>2, <2>3, <2>4, <2>5, <2>6, SocketSteps
<1>4. \/ Occurs(c, newRequests')
      \/ \E w \in Workers : \E i \in Len(chan'[w].at) + 1 .. Len(chan'[w].fds) :
           chan'[w].fds[i] = c
  BY DEF Queued, Occurs
<1> QED BY <1>1, <1>2, <1>3, <1>4

\* At the start there is nothing to give up.
LEMMA InitDrop == Init => DropInv
<1> SUFFICES ASSUME Init PROVE DropInv
  OBVIOUS
<1>1. /\ Len(newRequests) = 0 /\ Len(pool) = 0
      /\ \A w \in Workers : Len(chan[w].fds) = 0 /\ Len(chan[w].at) = 0
  BY EmptySeq DEF Init, NewStream
<1>2. \A c \in Clients : ~Queued(c)
  BY <1>1 DEF Queued
<1> QED BY <1>1, <1>2 DEF Init, DropInv, QueuedDescriptorOpen, LiveClientNotDropped,
                          LiveWorkerNotDropped, InPool

\* The others bring in more to read, and what is gone or has exited stays so.
LEMMA OthersDrop ==
  ASSUME IInv, DropInv, [Next]_vars, OthersStep
  PROVE  DropInv'
<1>1. \A c \in Clients : Queued(c)' => Queued(c)
  <2>1. \A c \in Clients : ~MasterReadClient(c)
    BY DEF OthersStep, MasterReadClient, HandleEvent
  <2> QED BY <2>1, QueuedByRead
<1>2. \A c \in Clients : ClientTk(c) \in mreadable' => arrived'[c] > bytesRead'[c] \/ Gone(c)'
  <2>1. \A c \in Clients : arrived'[c] \in Nat /\ arrived[c] \in Nat /\ bytesRead[c] \in Nat
    <3>1. \A c \in Clients : arrived'[c] \in 0 .. HeaderSize
      BY NextInv DEF IInv, TypeOK, ClientsTypeOK
    <3> QED BY <3>1, Counts DEF HeaderSize
  <2>2. \A c \in Clients : arrived[c] > bytesRead[c] => arrived'[c] > bytesRead'[c]
    BY <2>1 DEF OthersStep
  <2> QED BY <2>2 DEF OthersStep, DropInv
<1>3. QueuedDescriptorOpen' /\ \A c \in Clients : Queued(c)' => ClientTk(c) \notin mreg'
  BY <1>1 DEF OthersStep, DropInv, QueuedDescriptorOpen
<1>4. /\ LiveClientNotDropped'
      /\ \A w \in Workers : WorkerTk(w) \in mreadable' => logIn'[w] \/ Exited(w)'
  BY DEF OthersStep, DropInv, LiveClientNotDropped
<1>5. LiveWorkerNotDropped'
  <2>1. InPool' = InPool /\ InPool \subseteq Workers
    BY ElementOfSeq DEF OthersStep, InPool, IInv, TypeOK, MasterTypeOK
  <2> QED BY <2>1 DEF OthersStep, DropInv, LiveWorkerNotDropped
<1> QED BY <1>2, <1>3, <1>4, <1>5 DEF DropInv

\* The head of the loop closes what is to be removed, none of it queued, and
\* ends master only over a stream that has been given up.
LEMMA HeadDrop ==
  ASSUME IInv, RegisteredInv, DropInv, [Next]_vars, MasterLoopHead
  PROVE  DropInv'
<1>1. /\ ioActions' = (ioActions \ toRemove) \cup toInsert /\ toRemove' = {}
      /\ UNCHANGED <<mreg, mreadable, arrived, cpc, bytesRead, wpc, logIn, pool>>
      /\ mpc' = "dead" => \E w \in InPool : WorkerTk(w) \notin mreg
  BY DEF MasterLoopHead, ActionsNow, clientVars, logVars
<1>2. \A c \in Clients : Queued(c)' => Queued(c)
  <2>1. \A c \in Clients : ~MasterReadClient(c)
    BY DEF MasterLoopHead, MasterReadClient, HandleEvent
  <2> QED BY <2>1, QueuedByRead
<1>3. InPool' = InPool
  BY <1>1 DEF InPool
<1>4. QueuedDescriptorOpen' /\ LiveClientNotDropped'
  BY <1>1, <1>2 DEF DropInv, QueuedDescriptorOpen, LiveClientNotDropped
<1>5. LiveWorkerNotDropped'
  BY <1>1, <1>3 DEF DropInv, LiveWorkerNotDropped, Exited
<1> QED BY <1>1, <1>2, <1>4, <1>5 DEF DropInv, Gone, Exited

\* A poll reports a stream readable only when there is something to read, or
\* its peer has ended it.
LEMMA PollDrop ==
  ASSUME IInv, RegisteredInv, DropInv, [Next]_vars, MasterPoll
  PROVE  DropInv'
<1>1. /\ UNCHANGED <<ioActions, toRemove, mreg, arrived, cpc, bytesRead, wpc, logIn,
                     pool, newRequests, chan>>
      /\ mpc' # "dead"
      /\ \A tk \in mreadable' : MasterReadable(tk)
  BY DEF MasterPoll, clientVars, workerVars, logVars
<1>2. \A c \in Clients : Queued(c)' <=> Queued(c)
  BY <1>1 DEF Queued
<1>3. \A c \in Clients : ClientTk(c) \in mreadable' => arrived[c] > bytesRead[c] \/ Gone(c)
  BY <1>1, Tokens, TokensDiffer DEF MasterReadable
<1>4. \A w \in Workers : WorkerTk(w) \in mreadable' => logIn[w] \/ Exited(w)
  BY <1>1, Tokens, TokensDiffer DEF MasterReadable
<1>5. InPool' = InPool
  BY <1>1 DEF InPool
<1>6. QueuedDescriptorOpen' /\ LiveClientNotDropped' /\ LiveWorkerNotDropped'
  BY <1>1, <1>2, <1>5 DEF DropInv, QueuedDescriptorOpen, LiveClientNotDropped, Gone,
                          LiveWorkerNotDropped, Exited
<1> QED BY <1>1, <1>2, <1>3, <1>4, <1>6 DEF DropInv, Gone, Exited

\* Accepting a client registers a stream that is not queued.
LEMMA AcceptClientDrop ==
  ASSUME IInv, RegisteredInv, FreshInv, DropInv, [Next]_vars, MasterAcceptClient
  PROVE  DropInv'
<1>h. HandleEvent(MainTk) /\ MainTk \in mreadable /\ backlog # <<>>
  BY HandleEventInv DEF MasterAcceptClient, IInv, EventsFounded
<1>1. mpc' # "dead" /\ mreadable' \subseteq mreadable
  BY <1>h, HandledEvent
<1>2. UNCHANGED <<ioActions, toRemove, arrived, cpc, bytesRead, wpc, logIn, pool,
                  newRequests, chan>>
  BY DEF MasterAcceptClient, workerVars, logVars
<1>3. /\ mreg \subseteq mreg'
      /\ \A c \in Clients : ClientTk(c) \in ioActions /\ ClientTk(c) \notin mreg =>
           ClientTk(c) \notin mreg'
  <2>1. Head(backlog) \in Clients /\ Occurs(Head(backlog), backlog)
    BY <1>h, AcceptFirst DEF FreshInv, IInv, TypeOK, ClientsTypeOK
  <2>2. ClientTk(Head(backlog)) \notin ioActions
    BY <2>1 DEF FreshInv, Known
  <2> QED BY <2>2 DEF MasterAcceptClient
<1>4. \A c \in Clients : Queued(c)' <=> Queued(c)
  BY <1>2 DEF Queued
<1>5. InPool' = InPool
  BY <1>2 DEF InPool
<1>6. QueuedDescriptorOpen' /\ \A c \in Clients : Queued(c)' => ClientTk(c) \notin mreg'
  BY <1>2, <1>3, <1>4 DEF DropInv, QueuedDescriptorOpen
<1>7. LiveClientNotDropped' /\ LiveWorkerNotDropped'
  BY <1>1, <1>2, <1>3, <1>5 DEF DropInv, LiveClientNotDropped, Gone,
                                LiveWorkerNotDropped, Exited
<1> QED BY <1>1, <1>2, <1>6, <1>7 DEF DropInv, Gone, Exited

\* A read gives the stream up only at the end of it, and deregisters what it
\* queues without taking it out of io_actions.
LEMMA ReadClientDrop ==
  ASSUME IInv, RegisteredInv, DropInv, [Next]_vars,
         NEW c \in Clients, MasterReadClient(c)
  PROVE  DropInv'
<1>h. HandleEvent(ClientTk(c))
  BY DEF MasterReadClient
<1>1. /\ mpc' # "dead" /\ mreadable' = mreadable \ {ClientTk(c)}
      /\ ClientTk(c) \in mreg /\ ClientTk(c) \in ioActions /\ ClientTk(c) \notin toRemove
  BY <1>h, HandledEvent
<1>2. /\ UNCHANGED <<ioActions, arrived, cpc, wpc, logIn, pool, chan>>
      /\ bytesRead' = [bytesRead EXCEPT ![c] = arrived[c]]
      /\ mreg' \subseteq mreg /\ mreg \ {ClientTk(c)} \subseteq mreg'
      /\ toRemove' = IF GivenUp(c) THEN toRemove \cup {ClientTk(c)} ELSE toRemove
      /\ arrived[c] > bytesRead[c] /\ BytesNow(c) = HeaderSize =>
           mreg' = mreg \ {ClientTk(c)}
  BY DEF MasterReadClient, BytesNow, clientVars, workerVars, logVars
<1>t. /\ arrived[c] \in Nat /\ bytesRead[c] \in Nat
      /\ bytesRead \in [Clients -> 0 .. HeaderSize]
  BY Counts
<1>3. ClientTk(c) \in mreadable
  BY <1>h, TokensDiffer DEF HandleEvent, IInv, EventsFounded
<1>4. GivenUp(c) => Gone(c)
  BY <1>3, <1>t DEF GivenUp, DropInv
<1>5. ASSUME NEW d \in Clients, Queued(d)'
      PROVE  ClientTk(d) \notin mreg' /\ ClientTk(d) \in ioActions' \ toRemove'
  <2>1. CASE Queued(d)
    BY <1>1, <1>2, <2>1 DEF DropInv, QueuedDescriptorOpen
  <2>2. CASE ~Queued(d)
    <3>1. MasterReadClient(d) /\ arrived[d] > bytesRead[d] /\ BytesNow(d) = HeaderSize
      BY <1>5, <2>2, QueuedByRead
    <3>2. d = c
      <4>1. mreadable' = mreadable \ {ClientTk(d)}
        BY <3>1 DEF MasterReadClient, HandleEvent
      <4> QED BY <1>1, <1>3, <4>1, TokensDiffer
    <3>3. ~GivenUp(c)
      BY <3>1, <3>2, <1>t DEF GivenUp
    <3> QED BY <1>1, <1>2, <3>1, <3>2, <3>3
  <2> QED BY <2>1, <2>2
<1>6. \A d \in Clients : ClientTk(d) \in mreadable' => arrived'[d] > bytesRead'[d] \/ Gone(d)'
  BY <1>1, <1>2, <1>t DEF DropInv, Gone
<1>7. LiveClientNotDropped'
  BY <1>2, <1>4, TokensDiffer DEF DropInv, LiveClientNotDropped, Gone
<1>8. /\ LiveWorkerNotDropped'
      /\ \A w \in Workers : WorkerTk(w) \in mreadable' => logIn'[w] \/ Exited(w)'
  <2>1. InPool' = InPool /\ InPool \subseteq Workers
    BY <1>2, ElementOfSeq DEF InPool, IInv, TypeOK, MasterTypeOK
  <2>2. \A w \in Workers : WorkerTk(w) \in mreg => WorkerTk(w) \in mreg'
    BY <1>2, TokensDiffer
  <2> QED BY <1>1, <1>2, <2>1, <2>2 DEF DropInv, LiveWorkerNotDropped, Exited
<1> QED BY <1>5, <1>6, <1>7, <1>8 DEF DropInv, QueuedDescriptorOpen

\* Accepting a worker registers its stream with the pool.
LEMMA AcceptWorkerDrop ==
  ASSUME IInv, RegisteredInv, DropInv, [Next]_vars, MasterAcceptWorker
  PROVE  DropInv'
<1>h. HandleEvent(UnixTk) /\ UnixTk \in mreadable /\ wbacklog # <<>>
  BY HandleEventInv DEF MasterAcceptWorker, IInv, EventsFounded
<1>1. mpc' # "dead" /\ mreadable' \subseteq mreadable
  BY <1>h, HandledEvent
<1>2. UNCHANGED <<toRemove, arrived, cpc, bytesRead, wpc, logIn, newRequests, chan>>
  BY DEF MasterAcceptWorker, clientVars, workerVars, logVars
<1>3. \E w \in Workers :
        /\ mreg' \subseteq mreg \cup {WorkerTk(w)} /\ mreg \subseteq mreg'
        /\ ioActions \subseteq ioActions'
        /\ InPool' = InPool \/ (InPool' = InPool \cup {w} /\ WorkerTk(w) \in mreg')
  <2>1. Head(wbacklog) \in Workers
    BY <1>h, HeadTailProperties DEF IInv, TypeOK, ClientsTypeOK
  <2>2. CASE UNCHANGED <<wbacklog, pool, ioActions, mreg, mready>>
    BY <2>1, <2>2 DEF InPool
  <2>3. CASE FdsOpen < MaxFds
    <3>1. InPool' = InPool \cup {Head(wbacklog)}
      BY <2>1, <2>3, JoinsPool DEF MasterAcceptWorker
    <3> QED BY <2>1, <2>3, <3>1 DEF MasterAcceptWorker
  <2> QED BY <2>2, <2>3 DEF MasterAcceptWorker
<1>4. \A c \in Clients : Queued(c)' <=> Queued(c)
  BY <1>2 DEF Queued
<1>5. QueuedDescriptorOpen' /\ \A c \in Clients : Queued(c)' => ClientTk(c) \notin mreg'
  BY <1>2, <1>3, <1>4, TokensDiffer DEF DropInv, QueuedDescriptorOpen
<1>6. LiveClientNotDropped' /\ LiveWorkerNotDropped'
  BY <1>1, <1>2, <1>3 DEF DropInv, LiveClientNotDropped, Gone, LiveWorkerNotDropped,
                          Exited
<1> QED BY <1>1, <1>2, <1>5, <1>6 DEF DropInv, Gone, Exited

\* A worker's stream is given up when there is nothing to read, so at its end.
LEMMA WorkerStreamDrop ==
  ASSUME IInv, RegisteredInv, DropInv, [Next]_vars,
         NEW w \in Workers, MasterWorkerStream(w)
  PROVE  DropInv'
<1>h. HandleEvent(WorkerTk(w))
  BY DEF MasterWorkerStream
<1>1. mpc' # "dead" /\ mreadable' = mreadable \ {WorkerTk(w)}
  BY <1>h, HandledEvent
<1>2. /\ UNCHANGED <<ioActions, arrived, cpc, bytesRead, wpc, pool, newRequests>>
      /\ mreg' = IF StreamEnded(w) THEN mreg \ {WorkerTk(w)} ELSE mreg
      /\ toRemove' \subseteq toRemove \cup {WorkerTk(w)}
      /\ \A v \in Workers \ {w} : logIn'[v] = logIn[v]
  BY DEF MasterWorkerStream, clientVars, IInv, TypeOK, WorkersTypeOK
<1>3. StreamEnded(w) => Exited(w)
  BY DEF StreamEnded, DropInv
<1>4. \A c \in Clients : Queued(c)' => Queued(c)
  <2>1. \A c \in Clients : ~MasterReadClient(c)
    BY <1>h, TokensDiffer DEF MasterReadClient, HandleEvent
  <2> QED BY <2>1, QueuedByRead
<1>5. QueuedDescriptorOpen' /\ \A c \in Clients : Queued(c)' => ClientTk(c) \notin mreg'
  BY <1>2, <1>4, TokensDiffer DEF DropInv, QueuedDescriptorOpen
<1>6. LiveClientNotDropped'
  BY <1>2, TokensDiffer DEF DropInv, LiveClientNotDropped, Gone
<1>7. LiveWorkerNotDropped'
  <2>1. InPool' = InPool /\ InPool \subseteq Workers
    BY <1>2, ElementOfSeq DEF InPool, IInv, TypeOK, MasterTypeOK
  <2> QED BY <1>1, <1>2, <1>3, <2>1, TokensDiffer DEF DropInv, LiveWorkerNotDropped,
                                                      Exited
<1>8. \A v \in Workers : WorkerTk(v) \in mreadable' => logIn'[v] \/ Exited(v)'
  BY <1>1, <1>2 DEF DropInv, Exited
<1>9. \A c \in Clients : ClientTk(c) \in mreadable' => arrived'[c] > bytesRead'[c] \/ Gone(c)'
  BY <1>1, <1>2 DEF DropInv, Gone
<1> QED BY <1>5, <1>6, <1>7, <1>8, <1>9 DEF DropInv

\* The steps that are not master's own.
LEMMA OthersOrMaster ==
  ASSUME IInv, [Next]_vars
  PROVE  OthersStep \/ MasterStep
<1>1. CASE UNCHANGED vars
  <2>1. \A c \in Clients : arrived[c] \in Nat
    BY Counts
  <2> QED BY <1>1, <2>1 DEF vars, clientVars, masterVars, workerVars, logVars,
                            OthersStep, Gone, Exited
<1> QED BY <1>1, ClientStepsOthers, WorkerStepsOthers DEF Next

\* Streams are given up for a reason in every step.
LEMMA NextDrop ==
  IInv /\ RegisteredInv /\ FreshInv /\ DropInv /\ [Next]_vars => DropInv'
<1> SUFFICES ASSUME IInv, RegisteredInv, FreshInv, DropInv, [Next]_vars
             PROVE  DropInv'
  OBVIOUS
<1>1. CASE OthersStep
  BY <1>1, OthersDrop
<1>2. CASE MasterStep
  BY <1>2, HeadDrop, PollDrop, AcceptClientDrop, ReadClientDrop, AcceptWorkerDrop,
     WorkerStreamDrop DEF MasterStep
<1> QED BY <1>1, <1>2, OthersOrMaster

-----------------------------------------------------------------------------
(* Streams that have output are armed *)

\* A write leaves bytes to be read, and a read leaves room or bytes.
LEMMA FullIsUnread ==
  ASSUME IInv, [Next]_vars, NEW w \in Workers, chan[w].full => Unread(chan[w]) > 0
  PROVE  /\ chan'[w].full => Unread(chan'[w]) > 0
         /\ Unread(chan'[w]) \in Int
         /\ Unread(chan'[w]) < Unread(chan[w]) => WorkerStream(w)
         /\ HasData(chan'[w]) # HasData(chan[w]) => mpc \in {"top", "batch"}
         /\ MasterWorkerStream(w) /\ WorkerTk(w) \in mwritable /\ ~Exited(w) =>
              Unread(chan'[w]) > 0
<1>t. chan[w] \in FdStreamType(Clients) /\ chan'[w] \in FdStreamType(Clients)
  BY Counts, NextInv DEF IInv, TypeOK
<1>f. /\ Fields(Clients, chan[w]) /\ Fields(Clients, chan'[w])
      /\ StreamInv(chan[w])
  BY <1>t, FieldTypes DEF IInv, StreamsInv
<1>n. /\ chan[w].wrote \in Nat /\ chan[w].read \in Nat
      /\ chan'[w].wrote \in Nat /\ chan'[w].read \in Nat
  BY <1>f DEF Fields
<1>u. Unread(chan'[w]) \in Int /\ Unread(chan[w]) \in Int
  BY <1>n DEF Unread
<1> DEFINE Writes == MasterWorkerStream(w) /\ WorkerTk(w) \in mwritable /\ ~Exited(w)
<1>1. CASE chan'[w] = chan[w] /\ ~Writes
  BY <1>1, <1>u
<1>2. CASE MasterLoopHead /\ chan'[w] = Dispatch(chan[w], newRequests)
  <2>1. /\ chan'[w].wrote = chan[w].wrote /\ chan'[w].read = chan[w].read
        /\ chan'[w].full = chan[w].full
    BY <1>2, <1>t DEF Dispatch, FdStreamType
  <2>2. Unread(chan'[w]) = Unread(chan[w])
    BY <2>1 DEF Unread
  <2>3. mpc = "top" /\ ~Writes
    BY <1>2 DEF MasterLoopHead, MasterWorkerStream, HandleEvent
  <2> QED BY <2>1, <2>2, <2>3, <1>u
<1>3. ASSUME MasterWorkerStream(w), NEW n \in 1 .. OutLen(chan[w]),
             chan'[w] = Write(chan[w], n)
      PROVE  Unread(chan'[w]) > 0 /\ Unread(chan'[w]) > Unread(chan[w]) /\ mpc = "batch"
  <2>1. chan'[w].wrote = chan[w].wrote + n /\ chan'[w].read = chan[w].read
    BY <1>3, <1>t DEF Write, FdStreamType
  <2>2. n \in Nat /\ n >= 1
    BY <1>f DEF Fields, OutLen, HeaderSize
  <2>3. chan[w].read <= chan[w].wrote
    BY <1>f DEF StreamInv, CountsInOrder
  <2>4. mpc = "batch"
    BY <1>3 DEF MasterWorkerStream, HandleEvent
  <2> QED BY <2>1, <2>2, <2>3, <2>4, <1>n DEF Unread
<1>4. ASSUME WorkerStream(w), NEW n, NEW k, NEW b,
             ReadReturns(chan[w], n, k), b \in FullAfter(chan[w], n),
             chan'[w] = TakeOne(Receive(chan[w], n, k, b))
      PROVE  /\ chan'[w].full => Unread(chan'[w]) > 0
             /\ ~Writes
             /\ HasData(chan'[w]) = HasData(chan[w])
  <2>1. /\ TakeOne(Receive(chan[w], n, k, b)).hdrs = chan[w].hdrs
        /\ TakeOne(Receive(chan[w], n, k, b)).wrote = chan[w].wrote
    BY <1>t, ReadKeepsQueue
  <2>2. HasData(chan'[w]) = HasData(chan[w])
    BY <1>4, <2>1 DEF HasData, OutLen
  <2>3. chan'[w].full => Unread(chan'[w]) > 0
    BY <1>4, <1>t, ReadLeavesFull DEF ReadReturns
  <2>4. ~Writes
    <3>1. mwritable' = mwritable
      BY <1>4 DEF WorkerStream
    <3> QED BY <3>1 DEF MasterWorkerStream, HandleEvent
  <2> QED BY <1>4, <2>2, <2>3, <2>4
<1>5. Writes => \E n \in 1 .. OutLen(chan[w]) : chan'[w] = Write(chan[w], n)
  BY Counts DEF MasterWorkerStream
<1> HIDE DEF Writes
<1>6. Writes => MasterWorkerStream(w)
  BY DEF Writes
<1>7. CASE MasterWorkerStream(w) /\ \E n \in 1 .. OutLen(chan[w]) : chan'[w] = Write(chan[w], n)
  BY <1>3, <1>7, <1>u
<1>8. CASE /\ WorkerStream(w)
           /\ \E n, k, b : /\ ReadReturns(chan[w], n, k)
                           /\ b \in FullAfter(chan[w], n)
                           /\ chan'[w] = TakeOne(Receive(chan[w], n, k, b))
  BY <1>4, <1>8, <1>u DEF Writes
<1>9. CASE chan'[w] = chan[w] /\ Writes
  BY <1>5, <1>6, <1>7, <1>9
<1> QED BY <1>1, <1>2, <1>7, <1>8, <1>9, SocketSteps DEF Writes

\* Master reads nothing out of the sockets it writes to.
LEMMA MasterKeepsUnread ==
  ASSUME IInv, ArmedInv, [Next]_vars, MasterStep, NEW w \in Workers,
         Unread(chan[w]) > 0
  PROVE  Unread(chan'[w]) > 0
<1>1. Unread(chan'[w]) \in Int /\ Unread(chan[w]) \in Int
  <2>1. Fields(Clients, chan[w])
    BY Counts, FieldTypes
  <2>2. chan[w].wrote \in Nat /\ chan[w].read \in Nat
    BY <2>1 DEF Fields
  <2>3. Unread(chan[w]) \in Int
    BY <2>2 DEF Unread
  <2> QED BY <2>3, FullIsUnread DEF ArmedInv
<1>2. ~WorkerStream(w) \/ chan' = chan
  BY DEF MasterStep, MasterLoopHead, MasterPoll, MasterAcceptClient, MasterReadClient,
         MasterAcceptWorker, MasterWorkerStream, HandleEvent, WorkerStream
<1>3. ~(Unread(chan'[w]) < Unread(chan[w]))
  BY <1>1, <1>2, FullIsUnread DEF ArmedInv
<1> QED BY <1>1, <1>3

\* No interest and nothing to write at the start.
LEMMA InitArmed == Init => ArmedInv
  BY EmptySeq DEF Init, ArmedInv, NewStream, InPool

\* A worker that reads wakes master, whose stream to it is registered, or
\* leaves bytes to read.
LEMMA OthersArmed ==
  ASSUME IInv, DropInv, ArmedInv, [Next]_vars, OthersStep
  PROVE  ArmedInv'
<1>1. /\ UNCHANGED <<mpc, mwritable, interest, pool, mreg>> /\ mready \subseteq mready'
      /\ InPool' = InPool
  BY DEF OthersStep, InPool
<1>2. \A w \in Workers : chan'[w].full => Unread(chan'[w]) > 0
  BY FullIsUnread DEF ArmedInv
<1>3. \A w \in InPool : w \in Workers
  BY ElementOfSeq DEF InPool, IInv, TypeOK, MasterTypeOK
<1>4. mpc' = "poll" => \A w \in InPool : interest[w] = "RW" <=> HasData(chan'[w])
  <2>1. \A w \in Workers : HasData(chan'[w]) # HasData(chan[w]) => mpc # "poll"
    BY FullIsUnread DEF ArmedInv
  <2> QED BY <1>1, <1>3, <2>1 DEF ArmedInv
<1>5. ASSUME mpc # "dead", NEW w \in InPool, ~Exited(w)', interest[w] = "RW"
      PROVE  WorkerTk(w) \in mready' \cup mwritable' \/ Unread(chan'[w]) > 0
  <2>1. w \in Workers /\ ~Exited(w)
    BY <1>3, <1>5 DEF OthersStep
  <2>2. CASE WorkerTk(w) \in mready \cup mwritable
    BY <1>1, <2>2
  <2>3. CASE Unread(chan[w]) > 0
    <3>1. CASE WorkerStream(w) /\ chan' # chan
      <4>1. chan'[w].full \/ mready' = mready \cup Edge(mreg, WorkerTk(w))
        BY <3>1 DEF WorkerStream
      <4>2. WorkerTk(w) \in mreg
        BY <2>1 DEF DropInv, LiveWorkerNotDropped
      <4>3. chan'[w].full => Unread(chan'[w]) > 0
        BY <1>2, <2>1
      <4> QED BY <4>1, <4>2, <4>3 DEF Edge
    <3>2. CASE ~WorkerStream(w) \/ chan' = chan
      <4>1. Unread(chan'[w]) \in Int /\ Unread(chan[w]) \in Int
        <5>1. Fields(Clients, chan[w])
          BY <2>1, Counts, FieldTypes
        <5>2. chan[w].wrote \in Nat /\ chan[w].read \in Nat
          BY <5>1 DEF Fields
        <5>3. Unread(chan[w]) \in Int
          BY <5>2 DEF Unread
        <5> QED BY <2>1, <5>3, FullIsUnread DEF ArmedInv
      <4>2. ~(Unread(chan'[w]) < Unread(chan[w]))
        BY <2>1, <3>2, <4>1, FullIsUnread DEF ArmedInv
      <4> QED BY <2>3, <4>1, <4>2
    <3> QED BY <3>1, <3>2
  <2> QED BY <1>5, <2>1, <2>2, <2>3 DEF ArmedInv
<1> QED BY <1>1, <1>2, <1>4, <1>5 DEF ArmedInv

\* The head of the loop sets each interest by what the outbuffer now holds;
\* to change one is to put its stream on the ready list.
LEMMA HeadArmed ==
  ASSUME IInv, ArmedInv, [Next]_vars, MasterLoopHead
  PROVE  ArmedInv'
<1>1. /\ mpc = "top" /\ UNCHANGED <<mwritable, pool, wpc>>
      /\ InPool' = InPool
      /\ mpc' # "dead" => mready \subseteq mready'
      /\ \A w \in Workers :
           \/ interest'[w] = interest[w]
           \/ /\ w \in InPool /\ interest'[w] = Wanted(w)
              /\ mpc' = "dead" \/ WorkerTk(w) \in mready'
      /\ \A w \in Workers : w \in InPool => interest'[w] = Wanted(w)
  BY DEF MasterLoopHead, InPool
<1>2. InPool' = InPool /\ \A w \in InPool : w \in Workers
  BY <1>1, ElementOfSeq DEF InPool, IInv, TypeOK, MasterTypeOK
<1>3. \A w \in Workers : chan'[w].full => Unread(chan'[w]) > 0
  BY FullIsUnread DEF ArmedInv
<1>4. \A w \in Workers : Wanted(w) = "RW" <=> HasData(chan'[w])
  BY DEF Wanted, MasterLoopHead
<1>5. ASSUME mpc' # "dead", NEW w \in InPool, ~Exited(w), interest'[w] = "RW"
      PROVE  WorkerTk(w) \in mready' \cup mwritable' \/ Unread(chan'[w]) > 0
  <2>1. CASE interest'[w] # interest[w]
    BY <1>1, <1>2, <1>5, <2>1
  <2>2. CASE interest'[w] = interest[w]
    <3>1. WorkerTk(w) \in mready \cup mwritable \/ Unread(chan[w]) > 0
      BY <1>1, <1>5, <2>2 DEF ArmedInv
    <3>2. Unread(chan[w]) > 0 => Unread(chan'[w]) > 0
      BY <1>2, MasterKeepsUnread DEF MasterStep
    <3> QED BY <1>1, <1>5, <3>1, <3>2
  <2> QED BY <2>1, <2>2
<1>6. \A w \in Workers : w \notin InPool => interest'[w] = "RO"
  BY <1>1 DEF ArmedInv
<1>7. \A w \in InPool : interest'[w] = "RW" <=> HasData(chan'[w])
  BY <1>1, <1>2, <1>4
<1>8. \A w \in Workers : Exited(w)' <=> Exited(w)
  BY <1>1 DEF Exited
<1> QED BY <1>2, <1>3, <1>5, <1>6, <1>7, <1>8 DEF ArmedInv

\* A poll that takes a token with output off the ready list reports it, or
\* finds the socket full: then the worker has bytes to read.
LEMMA PollArmed ==
  ASSUME IInv, RegisteredInv, ArmedInv, [Next]_vars, MasterPoll
  PROVE  ArmedInv'
<1>1. /\ mpc = "poll" /\ mpc' \notin {"poll", "dead"}
      /\ UNCHANGED <<interest, pool, wpc, chan>> /\ InPool' = InPool
      /\ mwritable' = {tk \in mready : MasterWritable(tk)}
  BY DEF MasterPoll, InPool, workerVars
<1>2. \A w \in InPool : w \in Workers
  BY ElementOfSeq DEF InPool, IInv, TypeOK, MasterTypeOK
<1>3. ASSUME NEW w \in InPool, ~Exited(w), interest[w] = "RW"
      PROVE  WorkerTk(w) \in mwritable' \/ Unread(chan[w]) > 0
  <2>1. WorkerTk(w) \in mready \/ Unread(chan[w]) > 0
    BY <1>1, <1>3 DEF ArmedInv, RegisteredInv
  <2>2. CASE chan[w].full
    BY <1>2, <2>2 DEF ArmedInv
  <2>3. CASE ~chan[w].full
    BY <1>1, <1>2, <1>3, <2>1, <2>3 DEF MasterWritable
  <2> QED BY <2>2, <2>3
<1>4. \A w \in Workers : Exited(w)' <=> Exited(w)
  BY <1>1 DEF Exited
<1> QED BY <1>1, <1>2, <1>3, <1>4 DEF ArmedInv

\* A listener's or a client's event does not touch what a worker is armed by.
LEMMA OtherEventArmed ==
  ASSUME IInv, RegisteredInv, FreshInv, ArmedInv, [Next]_vars,
         \/ MasterAcceptClient \/ MasterAcceptWorker
         \/ \E c \in Clients : MasterReadClient(c)
  PROVE  ArmedInv'
<1>1. /\ UNCHANGED <<interest, wpc, chan>>
      /\ mpc = "batch" /\ mpc' \in {"top", "batch"}
  BY DEF MasterAcceptClient, MasterAcceptWorker, MasterReadClient, HandleEvent,
         workerVars
<1>2. \A w \in Workers :
        /\ WorkerTk(w) \in mready => WorkerTk(w) \in mready'
        /\ WorkerTk(w) \in mwritable => WorkerTk(w) \in mwritable'
  <2>1. \A w \in Workers : WorkerTk(w) \in mwritable => WorkerTk(w) \in mwritable'
    BY Tokens, TokensDiffer
       DEF MasterAcceptClient, MasterAcceptWorker, MasterReadClient, HandleEvent
  <2>2. CASE MasterAcceptClient \/ MasterAcceptWorker
    BY <2>1, <2>2 DEF MasterAcceptClient, MasterAcceptWorker
  <2>3. CASE \E c \in Clients : MasterReadClient(c)
    BY <2>1, <2>3, TokensDiffer DEF MasterReadClient
  <2> QED BY <2>1, <2>2, <2>3
<1>3. /\ InPool \subseteq InPool'
      /\ \A w \in InPool' : w \in Workers /\ (w \notin InPool => interest[w] = "RO")
  <2>1. \A w \in InPool' : w \in Workers
    BY NextInv, ElementOfSeq DEF InPool, IInv, TypeOK, MasterTypeOK
  <2>2. InPool \subseteq InPool'
    <3>1. CASE pool' = pool
      BY <3>1 DEF InPool
    <3>2. CASE MasterAcceptWorker /\ pool' # pool
      <4>1. pool' = Append(pool, Head(wbacklog)) /\ wbacklog # <<>>
        BY <3>2, HandleEventInv DEF MasterAcceptWorker, IInv, EventsFounded
      <4>2. Head(wbacklog) \in Workers
        BY <4>1, HeadTailProperties DEF IInv, TypeOK, ClientsTypeOK
      <4> QED BY <4>1, <4>2, JoinsPool
    <3> QED BY <3>1, <3>2 DEF MasterAcceptClient, MasterReadClient
  <2> QED BY <2>1, <2>2 DEF ArmedInv
<1>4. \A w \in Workers : Exited(w)' <=> Exited(w)
  BY <1>1 DEF Exited
<1>5. ASSUME NEW w \in InPool', ~Exited(w), interest[w] = "RW"
      PROVE  WorkerTk(w) \in mready' \cup mwritable' \/ Unread(chan[w]) > 0
  <2>1. w \in InPool /\ w \in Workers
    BY <1>3, <1>5
  <2>2. WorkerTk(w) \in mready \cup mwritable \/ Unread(chan[w]) > 0
    BY <1>1, <1>5, <2>1 DEF ArmedInv
  <2> QED BY <1>2, <2>1, <2>2
<1>6. \A w \in Workers : w \notin InPool' => interest'[w] = "RO"
  BY <1>1, <1>3 DEF ArmedInv
<1>7. \A w \in Workers : chan'[w].full => Unread(chan'[w]) > 0
  BY <1>1 DEF ArmedInv
<1> QED BY <1>1, <1>3, <1>4, <1>5, <1>6, <1>7 DEF ArmedInv

\* A writable event ends in a write, which the worker will read; an event that
\* is only readable leaves what is armed armed, but for a worker that is over.
LEMMA WorkerStreamArmed ==
  ASSUME IInv, RegisteredInv, DropInv, ArmedInv, [Next]_vars,
         NEW w \in Workers, MasterWorkerStream(w)
  PROVE  ArmedInv'
<1>1. /\ UNCHANGED <<interest, wpc, pool>> /\ InPool' = InPool
      /\ mpc = "batch" /\ mpc' \in {"top", "batch"}
      /\ mwritable' = mwritable \ {WorkerTk(w)}
      /\ mready' = IF StreamEnded(w) THEN mready \ {WorkerTk(w)} ELSE mready
  BY DEF MasterWorkerStream, HandleEvent, InPool
<1>2. \A v \in InPool : v \in Workers
  BY ElementOfSeq DEF InPool, IInv, TypeOK, MasterTypeOK
<1>3. \A v \in Workers : chan'[v].full => Unread(chan'[v]) > 0
  BY FullIsUnread DEF ArmedInv
<1>4. StreamEnded(w) => Exited(w)
  BY DEF StreamEnded, DropInv
<1>5. \A v \in Workers : Exited(v)' <=> Exited(v)
  BY <1>1 DEF Exited
<1>6. ASSUME NEW v \in InPool, ~Exited(v), interest[v] = "RW"
      PROVE  WorkerTk(v) \in mready' \cup mwritable' \/ Unread(chan'[v]) > 0
  <2>1. WorkerTk(v) \in mready \cup mwritable \/ Unread(chan[v]) > 0
    BY <1>1, <1>6 DEF ArmedInv
  <2>2. Unread(chan[v]) > 0 => Unread(chan'[v]) > 0
    BY <1>2, MasterKeepsUnread DEF MasterStep
  <2>3. CASE v # w
    BY <1>1, <1>2, <2>1, <2>2, <2>3, TokensDiffer
  <2>4. CASE v = w /\ WorkerTk(w) \in mwritable
    BY <1>6, <2>4, FullIsUnread DEF ArmedInv
  <2>5. CASE v = w /\ WorkerTk(w) \notin mwritable
    BY <1>1, <1>4, <1>6, <2>1, <2>2, <2>5
  <2> QED BY <2>3, <2>4, <2>5
<1> QED BY <1>1, <1>2, <1>3, <1>5, <1>6 DEF ArmedInv

\* What has output stays armed in every step.
LEMMA NextArmed ==
  IInv /\ RegisteredInv /\ FreshInv /\ DropInv /\ ArmedInv /\ [Next]_vars => ArmedInv'
<1> SUFFICES ASSUME IInv, RegisteredInv, FreshInv, DropInv, ArmedInv, [Next]_vars
             PROVE  ArmedInv'
  OBVIOUS
<1>1. CASE OthersStep
  BY <1>1, OthersArmed
<1>2. CASE MasterStep
  BY <1>2, HeadArmed, PollArmed, OtherEventArmed, WorkerStreamArmed DEF MasterStep
<1> QED BY <1>1, <1>2, OthersOrMaster

-----------------------------------------------------------------------------
(* Theorems *)

\* The invariant of master's maps, lists and interests.
EventsInv == RegisteredInv /\ FreshInv /\ DropInv /\ ArmedInv

\* It holds throughout.
THEOREM EventsInvariance == Spec => [](IInv /\ EventsInv)
<1>1. Init => IInv /\ EventsInv
  BY InitInv, InitRegistered, InitDrop, InitArmed DEF EventsInv
<1>2. IInv /\ EventsInv /\ [Next]_vars => (IInv /\ EventsInv)'
  BY NextInv, NextRegistered, NextDrop, NextArmed DEF EventsInv
<1> QED BY <1>1, <1>2, PTL DEF Spec

\* Every event master handles finds its stream in io_actions.
THEOREM EventsFindStreams == Spec => []NoOrphanEvent
<1>1. EventsInv => NoOrphanEvent
  BY DEF EventsInv, RegisteredInv
<1> QED BY EventsInvariance, <1>1, PTL

\* The raw descriptor of a queued request is open until it has been sent: its
\* stream has been deregistered by then, so no event can close it.
THEOREM DescriptorStaysOpen == Spec => []QueuedDescriptorOpen
<1>1. EventsInv => QueuedDescriptorOpen
  BY DEF EventsInv, DropInv
<1> QED BY EventsInvariance, <1>1, PTL

\* Master gives a client up only when the client has gone.
THEOREM ClientsKept == Spec => []LiveClientNotDropped
<1>1. EventsInv => LiveClientNotDropped
  BY DEF EventsInv, DropInv
<1> QED BY EventsInvariance, <1>1, PTL

\* Master gives a worker up only when the worker has exited, and itself ends
\* only over such a worker.
THEOREM WorkersKept == Spec => []LiveWorkerNotDropped
<1>1. EventsInv => LiveWorkerNotDropped
  BY DEF EventsInv, DropInv
<1> QED BY EventsInvariance, <1>1, PTL

\* Master never sleeps on headers it has not written without an edge on its
\* way that will make it write them.
THEOREM SleepsOnlyWhenArmed == Spec => []MasterSleepsOnlyWhenArmed
<1>1. EventsInv => MasterSleepsOnlyWhenArmed
  BY DEF EventsInv, RegisteredInv, ArmedInv, MasterSleepsOnlyWhenArmed
<1> QED BY EventsInvariance, <1>1, PTL
=============================================================================
