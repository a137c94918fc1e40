------------------------------ MODULE Handoff ------------------------------
(***************************************************************************)
(* How a client connection becomes a session: master accepts it, reads the *)
(* 8 bytes of the hello header, and hands header and descriptor to one     *)
(* worker over that worker's unix socket; the worker checks the header,    *)
(* draws a session id and greets the client.  Master and workers are       *)
(* single threaded mio loops; each event a poll returned is one step here, *)
(* so the other processes run between the handling of two events.          *)
(*                                                                         *)
(* mio registers descriptors edge triggered: a token enters the ready list *)
(* when something new happens to its descriptor, or when it is (re-)       *)
(* registered while ready; a poll empties the list and reports those that  *)
(* still are ready, so what a handler leaves behind waits for a new edge.  *)
(*                                                                         *)
(* Left out: output streams, the stdout pipes, and what sessions do once   *)
(* they are open.  Their events only wake a loop, which is why a poll may  *)
(* return without an event for any token of this module.  Of the log that  *)
(* workers send to master only its presence is kept: it makes events.      *)
(***************************************************************************)
EXTENDS FdStream, FiniteSets

CONSTANTS
  Clients,        \* processes that connect to master's main listener
  BadClients,     \* those whose first 8 bytes are not a hello header
  Workers,        \* the num_workers processes master spawned
  Crashable,      \* workers that may exit at any moment
  MaxFds,         \* client and worker descriptors master may hold open
  HelloCuts,      \* byte counts at which the arrival of a hello may pause
  Quanta          \* byte counts at which a unix socket transfer may stop

ASSUME HandoffAssumption ==
  /\ BadClients \subseteq Clients
  /\ Crashable \subseteq Workers
  /\ MaxFds \in Nat
  /\ HelloCuts \subseteq 1 .. HeaderSize - 1
  /\ Quanta \subseteq Nat \ {0}

VARIABLES
  \* the clients and the kernel's side of their connections
  cpc,            \* idle, wait (blocked in read_exact), session, gone, failed
  arrived,        \* bytes of its hello that reached the server's host
  backlog,        \* connections the main listener has not accepted
  wbacklog,       \* worker connections the unix listener has not accepted
  \* master
  mpc,            \* top of the loop, in poll, batch of events, or dead
  mready,         \* tokens in epoll's ready list
  mreadable,      \* events of the current batch still to handle: readable
  mwritable,      \*   and writable ones
  mreg,           \* tokens registered with epoll
  ioActions,      \* tokens of the io_actions map
  toInsert, toRemove,
  bytesRead,      \* ClientStream.bytes_read
  newRequests,    \* clients whose (header, fd) wait in new_requests
  pool,           \* WorkerStreams.streams
  lastSend,       \* WorkerStreams.last_send
  interest,       \* interest of each worker stream, "RO" or "RW"
  chan,           \* the unix socket of each worker, see FdStream
  \* workers
  wpc,            \* off, top, poll, batch, dead
  wready, wreadable, wwritable,
  served,         \* entries of chan[w].taken popped from new_msgs
  wsInterest,     \* interest of the worker's own end of the stream
  logOut,         \* the worker has log messages in its outbuffer
  logIn,          \* and there are some in the socket to master
  session         \* none, rejected, greeting (hello in outbuffer), open, closed

clientVars == <<cpc, arrived, backlog>>
masterVars == <<mpc, mready, mreadable, mwritable, mreg, ioActions, toInsert,
                toRemove, bytesRead, newRequests, pool, lastSend, interest>>
logVars    == <<wsInterest, logOut, logIn>>
workerVars == <<wpc, wready, wreadable, wwritable, served, session, logVars>>
vars       == <<clientVars, wbacklog, masterVars, chan, workerVars>>

-----------------------------------------------------------------------------
(* Tokens, and what the kernel says of them *)

MainTk    == <<"main">>
UnixTk    == <<"unix">>
ClientTk(c) == <<"client", c>>
WorkerTk(w) == <<"worker", w>>
StreamTk  == <<"stream">>      \* WORKER_STREAM_TK, a worker's end

MasterTks == {MainTk, UnixTk} \cup {ClientTk(c) : c \in Clients}
                              \cup {WorkerTk(w) : w \in Workers}
LoopTks   == {StreamTk} \cup {ClientTk(c) : c \in Clients}

Gone(c)   == cpc[c] = "gone"
Exited(w) == wpc[w] = "dead"

\* Master's descriptors: a stream is open from accept to its removal from
\* io_actions; the worker streams are also kept by WorkerStreams, for good.
OpenClients == {c \in Clients : ClientTk(c) \in ioActions \cup toInsert}
FdsOpen     == Cardinality(OpenClients) + Len(pool)

MasterReadable(tk) ==
  \/ tk = MainTk /\ backlog # <<>>
  \/ tk = UnixTk /\ wbacklog # <<>>
  \/ \E c \in Clients : tk = ClientTk(c) /\ (arrived[c] > bytesRead[c] \/ Gone(c))
  \/ \E w \in Workers : tk = WorkerTk(w) /\ (logIn[w] \/ Exited(w))

MasterWritable(tk) ==
  \E w \in Workers : /\ tk = WorkerTk(w)
                     /\ interest[w] = "RW"
                     /\ ~chan[w].full \/ Exited(w)

\* The tokens among tks that an edge at tk puts on the ready list.
Edge(tks, tk) == tks \cap {tk}

\* Is c's connection held open by worker w, in its queue or in its hands?
HeldBy(c, w) ==
  /\ ~Exited(w)
  /\ \/ \E i \in Len(chan[w].taken) + 1 .. Len(chan[w].at) : chan[w].fds[i] = c
     \/ \E i \in served[w] + 1 .. Len(chan[w].taken) : chan[w].taken[i].fd = c
     \/ /\ \E i \in 1 .. served[w] : chan[w].taken[i].fd = c
        /\ session[c] \in {"greeting", "open", "closed"}

HeldByMaster(c) ==
  /\ mpc # "dead"
  /\ \/ ClientTk(c) \in ioActions \cup toInsert
     \/ \E i \in 1 .. Len(backlog) : backlog[i] = c

WorkerReadable(w, tk) ==
  \/ tk = StreamTk /\ (Unread(chan[w]) > 0 \/ mpc = "dead")
  \/ \E c \in Clients : tk = ClientTk(c) /\ Gone(c)

WorkerWritable(w, tk) ==
  \/ tk = StreamTk /\ wsInterest[w] = "RW"
  \/ \E c \in Clients : tk = ClientTk(c) /\ session[c] = "greeting"

\* The client streams worker w has registered.
Registered(w) == {c \in Clients :
  /\ \E i \in 1 .. served[w] : chan[w].taken[i].fd = c
  /\ session[c] \in {"greeting", "open"}}

-----------------------------------------------------------------------------
(* Clients (client/connection.rs, and the network) *)

\* new_simple_connection: TCP connect.
ClientConnect(c) ==
  /\ cpc[c] = "idle"
  /\ mpc # "dead"
  /\ cpc' = [cpc EXCEPT ![c] = "wait"]
  /\ backlog' = Append(backlog, c)
  /\ mready' = mready \cup {MainTk}
  /\ UNCHANGED <<arrived, wbacklog, mpc, mreadable, mwritable, mreg, ioActions,
                 toInsert, toRemove, bytesRead, newRequests, pool, lastSend,
                 interest, chan, workerVars>>

\* The 8 bytes it writes reach the server, whole or in pieces.
HelloArrives(c, n) ==
  /\ cpc[c] = "wait"
  /\ n > arrived[c]
  /\ arrived' = [arrived EXCEPT ![c] = n]
  /\ mready' = mready \cup Edge(mreg, ClientTk(c))
  /\ UNCHANGED <<cpc, backlog, wbacklog, mpc, mreadable, mwritable, mreg,
                 ioActions, toInsert, toRemove, bytesRead, newRequests, pool,
                 lastSend, interest, chan, workerVars>>

\* It reads the server's hello: the session is up.
ClientEstablished(c) ==
  /\ cpc[c] = "wait"
  /\ session[c] = "open"
  /\ cpc' = [cpc EXCEPT ![c] = "session"]
  /\ UNCHANGED <<arrived, backlog, wbacklog, masterVars, chan, workerVars>>

\* It closes the connection, or its process ends.
ClientCloses(c) ==
  /\ cpc[c] \in {"wait", "session"}
  /\ cpc' = [cpc EXCEPT ![c] = "gone"]
  /\ mready' = mready \cup Edge(mreg, ClientTk(c))
  /\ wready' = [w \in Workers |->
                  IF c \in Registered(w) THEN wready[w] \cup {ClientTk(c)}
                                         ELSE wready[w]]
  /\ UNCHANGED <<arrived, backlog, wbacklog, mpc, mreadable, mwritable, mreg,
                 ioActions, toInsert, toRemove, bytesRead, newRequests, pool,
                 lastSend, interest, chan, wpc, wreadable, wwritable, served,
                 session, logVars>>

\* Its read fails once the last descriptor of the connection is closed.
ClientLearnsClose(c) ==
  /\ cpc[c] \in {"wait", "session"}
  /\ ~HeldByMaster(c)
  /\ \A w \in Workers : ~HeldBy(c, w)
  /\ cpc' = [cpc EXCEPT ![c] = "failed"]
  /\ UNCHANGED <<arrived, backlog, wbacklog, masterVars, chan, workerVars>>

-----------------------------------------------------------------------------
(* Master (server/runmaster/mod.rs) *)

\* Which socket WorkerStreams.dispatch gives the pending requests to: the
\* index moves on every turn of the loop, request or not.
NextSend == (lastSend + 1) % Len(pool)

Dispatched ==
  IF pool = <<>> THEN chan
  ELSE [chan EXCEPT ![pool[NextSend + 1]] = Dispatch(@, newRequests)]

\* What dispatch leaves in new_requests: everything until a worker has joined,
\* and nothing from then on.
\* Mutant: the requests are looked at but not popped.
NotPopped == newRequests
Remaining == IF pool = <<>> THEN newRequests ELSE <<>>

\* io_actions once the removals and insertions of the last batch are applied.
\* Mutant: streams accepted in the last batch are not inserted.
OnlyRemovals == ioActions \ toRemove
ActionsNow == (ioActions \ toRemove) \cup toInsert

\* Interest each worker stream should have, from its outbuffer.
\* Mutant: it is computed before the requests are dispatched.
WantedBefore(w) == IF HasData(chan[w]) THEN "RW" ELSE "RO"
Wanted(w) == IF HasData(Dispatched[w]) THEN "RW" ELSE "RO"

InPool == {pool[i] : i \in 1 .. Len(pool)}

\* Head of the loop: apply removals and insertions, dispatch, adjust the
\* interest of the worker streams.  To re-register a stream that has been
\* deregistered is an error, and the error ends master.
MasterLoopHead ==
  /\ mpc = "top"
  /\ ioActions' = ActionsNow
  /\ toRemove' = {} /\ toInsert' = {}
  /\ chan' = Dispatched
  /\ newRequests' = Remaining
  /\ lastSend' = IF pool = <<>> THEN lastSend ELSE NextSend
  /\ LET changed == {w \in InPool : interest[w] # Wanted(w)} IN
     /\ interest' = [w \in Workers |->
                       IF w \in changed THEN Wanted(w) ELSE interest[w]]
     /\ IF \E w \in changed : WorkerTk(w) \notin mreg
        THEN /\ mpc' = "dead"
             /\ wready' = [w \in Workers |-> wready[w] \cup {StreamTk}]
             /\ UNCHANGED mready
        ELSE /\ mpc' = "poll"
             /\ mready' = mready \cup {WorkerTk(w) : w \in changed}
             /\ UNCHANGED wready
  /\ UNCHANGED <<clientVars, wbacklog, mreadable, mwritable, mreg, bytesRead,
                 pool, wpc, wreadable, wwritable, served, session, logVars>>

\* The poll returns every token on the ready list that still is ready; with
\* none, an event of another stream has woken master.
MasterPoll ==
  /\ mpc = "poll"
  /\ mreadable' = {tk \in mready : MasterReadable(tk)}
  /\ mwritable' = {tk \in mready : MasterWritable(tk)}
  /\ mready' = {}
  /\ mpc' = IF mreadable' \cup mwritable' = {} THEN "top" ELSE "batch"
  /\ UNCHANGED <<clientVars, wbacklog, mreg, ioActions, toInsert, toRemove,
                 bytesRead, newRequests, pool, lastSend, interest, chan,
                 workerVars>>

\* The event tk of the batch is handled; after the last one the loop goes on.
HandleEvent(tk) ==
  /\ mpc = "batch"
  /\ tk \in mreadable \cup mwritable
  /\ mreadable' = mreadable \ {tk}
  /\ mwritable' = mwritable \ {tk}
  /\ mpc' = IF (mreadable \cup mwritable) \ {tk} = {} THEN "top" ELSE "batch"

\* What re-registering the main listener reports after an accept.
\* Mutant: the listener is not re-armed.
NotRearmed == {}
Rearmed == IF Len(backlog) > 1 THEN {MainTk} ELSE {}

\* Main listener: accept one connection, register it, and re-arm the listener
\* so that the next poll reports the connections still in the backlog.  When
\* accept fails for want of a descriptor nothing is done, not even re-arming.
MasterAcceptClient ==
  /\ HandleEvent(MainTk)
  /\ IF FdsOpen < MaxFds
     THEN LET c == Head(backlog) IN
          /\ backlog' = Tail(backlog)
          /\ toInsert' = toInsert \cup {ClientTk(c)}
          /\ mreg' = mreg \cup {ClientTk(c)}
          /\ mready' = mready
               \cup (IF arrived[c] > 0 \/ Gone(c) THEN {ClientTk(c)} ELSE {})
               \cup Rearmed
     ELSE UNCHANGED <<backlog, toInsert, mreg, mready>>
  /\ UNCHANGED <<cpc, arrived, wbacklog, ioActions, toRemove, bytesRead,
                 newRequests, pool, lastSend, interest, chan, workerVars>>

\* ClientStream.bytes_read after a read, which takes all that has arrived.
\* Mutants: the read replaces the count instead of adding to it; or adds all
\* that ever arrived.
LastReadOnly(c) == arrived[c] - bytesRead[c]
CountedTwice(c) == bytesRead[c] + arrived[c]
BytesNow(c) == arrived[c]

\* Which streams a read gives up: those that had nothing to give.
\* Mutants: the read is repeated until it would block; or a stream whose
\* header is complete is given up like a closed one.
ReadsTillBlocked(c) == arrived[c] < HeaderSize
GivenUpWhenDone(c)  == arrived[c] = bytesRead[c] \/ BytesNow(c) = HeaderSize
GivenUp(c) == arrived[c] = bytesRead[c]

\* ClientStream.read takes what has arrived of the header.  Continue leaves
\* the stream registered; Done deregisters it but leaves it in io_actions,
\* which keeps the descriptor open, and queues the request; Closed and Error
\* (nothing to read) deregister and remove it.
MasterReadClient(c) ==
  /\ HandleEvent(ClientTk(c))
  /\ bytesRead' = [bytesRead EXCEPT ![c] = BytesNow(c)]
  /\ LET done == arrived[c] > bytesRead[c] /\ BytesNow(c) = HeaderSize
         over == GivenUp(c) \/ done IN
     /\ mreg' = IF over THEN mreg \ {ClientTk(c)} ELSE mreg
     /\ mready' = IF over THEN mready \ {ClientTk(c)} ELSE mready
     /\ toRemove' = IF GivenUp(c) THEN toRemove \cup {ClientTk(c)} ELSE toRemove
     /\ newRequests' = IF done THEN Append(newRequests, c) ELSE newRequests
  /\ UNCHANGED <<clientVars, wbacklog, ioActions, toInsert, pool, lastSend,
                 interest, chan, workerVars>>

\* Unix listener: accept one worker.  The listener is not re-armed.
MasterAcceptWorker ==
  /\ HandleEvent(UnixTk)
  /\ IF FdsOpen < MaxFds
     THEN LET w == Head(wbacklog) IN
          /\ wbacklog' = Tail(wbacklog)
          /\ pool' = Append(pool, w)
          /\ ioActions' = ioActions \cup {WorkerTk(w)}
          /\ mreg' = mreg \cup {WorkerTk(w)}
          /\ mready' = mready \cup (IF Exited(w) THEN {WorkerTk(w)} ELSE {})
     ELSE UNCHANGED <<wbacklog, pool, ioActions, mreg, mready>>
  /\ UNCHANGED <<clientVars, toInsert, toRemove, bytesRead, newRequests,
                 lastSend, interest, chan, workerVars>>

\* A readable event whose read finds no log messages has met the end of the
\* stream.
\* Mutant: the stream is read on every event, also when only writable.
ReadsAnyway(w) == ~logIn[w]
StreamEnded(w) == WorkerTk(w) \in mreadable /\ ~logIn[w]

\* Worker stream.  Readable is log messages, which are read and printed, or
\* the end of the stream: deregister, and remove from io_actions, but not from
\* WorkerStreams.  Writable writes from the outbuffer; a write to an exited
\* worker fails and is only logged.
MasterWorkerStream(w) ==
  /\ HandleEvent(WorkerTk(w))
  /\ logIn' = [logIn EXCEPT ![w] = @ /\ WorkerTk(w) \notin mreadable]
  /\ IF StreamEnded(w)
     THEN /\ mreg' = mreg \ {WorkerTk(w)}
          /\ toRemove' = toRemove \cup {WorkerTk(w)}
          /\ mready' = mready \ {WorkerTk(w)}
     ELSE UNCHANGED <<mreg, toRemove, mready>>
  /\ IF WorkerTk(w) \in mwritable /\ ~Exited(w)
     THEN /\ \E n \in (Quanta \cup {OutLen(chan[w])}) \cap 1 .. OutLen(chan[w]) :
               chan' = [chan EXCEPT ![w] = Write(@, n)]
          /\ wready' = [wready EXCEPT ![w] = @ \cup {StreamTk}]
     ELSE UNCHANGED <<chan, wready>>
  /\ UNCHANGED <<clientVars, wbacklog, ioActions, toInsert, bytesRead,
                 newRequests, pool, lastSend, interest, wpc, wreadable,
                 wwritable, served, session, wsInterest, logOut>>

-----------------------------------------------------------------------------
(* Workers (server/worker.rs, server/runworker/mod.rs) *)

\* The process connects to master's socket and registers its end; should it
\* already have bytes in it the registration reports them.
WorkerStart(w) ==
  /\ wpc[w] = "off"
  /\ mpc # "dead"
  /\ wpc' = [wpc EXCEPT ![w] = "top"]
  /\ wbacklog' = Append(wbacklog, w)
  /\ mready' = mready \cup {UnixTk}
  /\ UNCHANGED <<clientVars, mpc, mreadable, mwritable, mreg, ioActions,
                 toInsert, toRemove, bytesRead, newRequests, pool, lastSend,
                 interest, chan, wready, wreadable, wwritable, served, session,
                 logVars>>

\* The clients in new_msgs, and what ClientStream::new makes of the header.
NewMsgs(w)   == {i \in 1 .. Len(chan[w].taken) : i > served[w]}
\* Mutant: the message type of the header is not looked at.
OpenedUnchecked(w) == {chan[w].taken[i].fd : i \in NewMsgs(w)}
Opened(w)    == {chan[w].taken[i].fd : i \in
                   {j \in NewMsgs(w) : chan[w].taken[j].header \notin BadClients}}
Rejected(w)  == {chan[w].taken[i].fd : i \in
                   {j \in NewMsgs(w) : chan[w].taken[j].header \in BadClients}}

\* The client streams that are registered RW, and thereby on the ready list.
\* Mutant: they stay RO with the hello in their outbuffer.
NoneArmed(w) == {}
Armed(w) == {ClientTk(c) : c \in Opened(w)}

\* Head of the loop: new clients are checked, get a session id and the hello
\* in their outbuffer, and are logged; then the worker stream, and the client
\* streams, are registered RW if they have output and RO if they have not.
\* To re-register is to be told again what the descriptor is ready for.
WorkerLoopHead(w) ==
  /\ wpc[w] = "top"
  /\ wpc' = [wpc EXCEPT ![w] = "poll"]
  /\ served' = [served EXCEPT ![w] = Len(chan[w].taken)]
  /\ session' = [c \in Clients |->
                   IF c \in Opened(w) THEN "greeting"
                   ELSE IF c \in Rejected(w) THEN "rejected" ELSE session[c]]
  /\ logOut' = [logOut EXCEPT ![w] = @ \/ Opened(w) # {}]
  /\ wsInterest' = [wsInterest EXCEPT ![w] = IF logOut'[w] THEN "RW" ELSE "RO"]
  /\ wready' = [wready EXCEPT ![w] =
       @ \cup Armed(w)
         \cup (IF wsInterest'[w] # wsInterest[w] THEN {StreamTk} ELSE {})]
  /\ UNCHANGED <<clientVars, wbacklog, masterVars, chan, wreadable, wwritable,
                 logIn>>

WorkerPoll(w) ==
  /\ wpc[w] = "poll"
  /\ wreadable' = [wreadable EXCEPT ![w] =
                     {tk \in wready[w] : WorkerReadable(w, tk)}]
  /\ wwritable' = [wwritable EXCEPT ![w] =
                     {tk \in wready[w] : WorkerWritable(w, tk)}]
  /\ wready' = [wready EXCEPT ![w] = {}]
  /\ wpc' = [wpc EXCEPT ![w] = IF wreadable'[w] \cup wwritable'[w] = {}
                               THEN "top" ELSE "batch"]
  /\ UNCHANGED <<clientVars, wbacklog, masterVars, chan, served, session,
                 logVars>>

WorkerHandles(w, tk) ==
  /\ wpc[w] = "batch"
  /\ tk \in wreadable[w] \cup wwritable[w]
  /\ wreadable' = [wreadable EXCEPT ![w] = @ \ {tk}]
  /\ wwritable' = [wwritable EXCEPT ![w] = @ \ {tk}]

WorkerGoesOn(w, tk) ==
  wpc' = [wpc EXCEPT ![w] = IF (wreadable[w] \cup wwritable[w]) \ {tk} = {}
                            THEN "top" ELSE "batch"]

\* The worker's process is over: master sees the end of the stream, and the
\* descriptors the worker had, or was to have, are closed.
ExitWorker(w) ==
  /\ wpc' = [wpc EXCEPT ![w] = "dead"]
  /\ mready' = mready \cup Edge(mreg, WorkerTk(w))

\* Worker stream.  Readable reads and takes at most one request from the
\* inbuffer; writable sends the log.  Either wakes master: bytes to read, or a
\* buffer freed in the socket, which Linux reports each time as long as there
\* is room.
WorkerStream(w) ==
  /\ WorkerHandles(w, StreamTk)
  /\ StreamTk \in wreadable[w] => Unread(chan[w]) > 0
  /\ StreamTk \in wwritable[w] => mpc # "dead"
  /\ WorkerGoesOn(w, StreamTk)
  /\ IF StreamTk \in wreadable[w]
     THEN \E n \in Quanta \cup ReadStops(chan[w]), k \in 0 .. FdQueueSize :
            \E full \in FullAfter(chan[w], n) :
              /\ ReadReturns(chan[w], n, k)
              /\ chan' = [chan EXCEPT ![w] = TakeOne(Receive(@, n, k, full))]
     ELSE UNCHANGED chan
  /\ LET sends == StreamTk \in wwritable[w] /\ logOut[w] IN
     /\ logOut' = [logOut EXCEPT ![w] = @ /\ ~sends]
     /\ logIn' = [logIn EXCEPT ![w] = @ \/ sends]
     /\ mready' = IF sends \/ (StreamTk \in wreadable[w] /\ ~chan'[w].full)
                  THEN mready \cup Edge(mreg, WorkerTk(w)) ELSE mready
  /\ UNCHANGED <<clientVars, wbacklog, mpc, mreadable, mwritable, mreg,
                 ioActions, toInsert, toRemove, bytesRead, newRequests, pool,
                 lastSend, interest, wready, served, session, wsInterest>>

\* Nothing left to read from a dead master, or a write to it: the error ends
\* the worker.
WorkerStreamEnds(w) ==
  /\ WorkerHandles(w, StreamTk)
  /\ \/ StreamTk \in wreadable[w] /\ Unread(chan[w]) = 0
     \/ StreamTk \in wwritable[w] /\ mpc = "dead"
  /\ ExitWorker(w)
  /\ UNCHANGED <<clientVars, wbacklog, mpc, mreadable, mwritable, mreg,
                 ioActions, toInsert, toRemove, bytesRead, newRequests, pool,
                 lastSend, interest, chan, wready, served, session, logVars>>

\* Client stream: a read at the end of the stream deregisters it (it stays in
\* client_streams, which nothing is ever removed from); a write greets.
WorkerClientEvent(w, c) ==
  /\ WorkerHandles(w, ClientTk(c))
  /\ WorkerGoesOn(w, ClientTk(c))
  /\ session' = [session EXCEPT ![c] =
                   IF ClientTk(c) \in wreadable[w] THEN "closed" ELSE "open"]
  /\ wready' = IF ClientTk(c) \in wreadable[w]
               THEN [wready EXCEPT ![w] = @ \ {ClientTk(c)}] ELSE wready
  /\ UNCHANGED <<clientVars, wbacklog, masterVars, chan, served, logVars>>

WorkerCrash(w) ==
  /\ w \in Crashable
  /\ wpc[w] \notin {"off", "dead"}
  /\ ExitWorker(w)
  /\ UNCHANGED <<clientVars, wbacklog, mpc, mreadable, mwritable, mreg,
                 ioActions, toInsert, toRemove, bytesRead, newRequests, pool,
                 lastSend, interest, chan, wready, wreadable, wwritable,
                 served, session, logVars>>

-----------------------------------------------------------------------------
Init ==
  /\ cpc = [c \in Clients |-> "idle"]
  /\ arrived = [c \in Clients |-> 0]
  /\ backlog = <<>> /\ wbacklog = <<>>
  /\ mpc = "top"
  /\ mready = {} /\ mreadable = {} /\ mwritable = {}
  /\ mreg = {MainTk, UnixTk} /\ ioActions = {MainTk, UnixTk}
  /\ toInsert = {} /\ toRemove = {}
  /\ bytesRead = [c \in Clients |-> 0]
  /\ newRequests = <<>> /\ pool = <<>> /\ lastSend = 0
  /\ interest = [w \in Workers |-> "RO"]
  /\ chan = [w \in Workers |-> NewStream]
  /\ wpc = [w \in Workers |-> "off"]
  /\ wready = [w \in Workers |-> {}]
  /\ wreadable = [w \in Workers |-> {}] /\ wwritable = [w \in Workers |-> {}]
  /\ served = [w \in Workers |-> 0]
  /\ session = [c \in Clients |-> "none"]
  /\ wsInterest = [w \in Workers |-> "RO"]
  /\ logOut = [w \in Workers |-> FALSE] /\ logIn = [w \in Workers |-> FALSE]

ClientStep(c) ==
  \/ ClientConnect(c)
  \/ \E n \in HelloCuts \cup {HeaderSize} : HelloArrives(c, n)
  \/ ClientEstablished(c)
  \/ ClientCloses(c)
  \/ ClientLearnsClose(c)

MasterStep ==
  \/ MasterLoopHead
  \/ MasterPoll
  \/ MasterAcceptClient
  \/ \E c \in Clients : MasterReadClient(c)
  \/ MasterAcceptWorker
  \/ \E w \in Workers : MasterWorkerStream(w)

WorkerStep(w) ==
  \/ WorkerStart(w)
  \/ WorkerLoopHead(w)
  \/ WorkerPoll(w)
  \/ WorkerStream(w)
  \/ WorkerStreamEnds(w)
  \/ \E c \in Clients : WorkerClientEvent(w, c)
  \/ WorkerCrash(w)

Next ==
  \/ \E c \in Clients : ClientStep(c)
  \/ MasterStep
  \/ \E w \in Workers : WorkerStep(w)

Spec == Init /\ [][Next]_vars

-----------------------------------------------------------------------------
(* Fairness: a process that can take a step of its loop eventually does; a  *)
(* poll returns when a registered descriptor is ready; bytes sent arrive.   *)
(* Nothing is assumed of crashes, closes, or of a client's decision to      *)
(* connect.                                                                 *)

MasterFairness ==
  /\ WF_vars(MasterLoopHead)
  /\ WF_vars(MasterPoll /\ mpc' = "batch")
  /\ WF_vars(MasterAcceptClient)
  /\ WF_vars(MasterAcceptWorker)
  /\ \A c \in Clients : WF_vars(MasterReadClient(c))
  /\ \A w \in Workers : WF_vars(MasterWorkerStream(w))

WorkerFairness(w) ==
  /\ WF_vars(WorkerStart(w))
  /\ WF_vars(WorkerLoopHead(w))
  /\ WF_vars(WorkerPoll(w) /\ wpc'[w] = "batch")
  /\ WF_vars(WorkerStream(w))
  /\ WF_vars(WorkerStreamEnds(w))
  /\ \A c \in Clients : WF_vars(WorkerClientEvent(w, c))

NetworkFairness(c) ==
  /\ WF_vars(HelloArrives(c, HeaderSize))
  /\ WF_vars(ClientEstablished(c))
  /\ WF_vars(ClientLearnsClose(c))

FairSpec ==
  /\ Spec
  /\ MasterFairness
  /\ \A w \in Workers : WorkerFairness(w)
  /\ \A c \in Clients : NetworkFairness(c)

-----------------------------------------------------------------------------
(* Properties *)

MasterPcs == {"top", "poll", "batch", "dead"}

ClientsTypeOK ==
  /\ cpc \in [Clients -> {"idle", "wait", "session", "gone", "failed"}]
  /\ arrived \in [Clients -> 0 .. HeaderSize]
  /\ backlog \in Seq(Clients) /\ wbacklog \in Seq(Workers)
  /\ session \in [Clients -> {"none", "rejected", "greeting", "open", "closed"}]

MasterTypeOK ==
  /\ mpc \in MasterPcs
  /\ mready \subseteq MasterTks /\ mreadable \subseteq MasterTks
  /\ mwritable \subseteq MasterTks
  /\ mreg \subseteq MasterTks /\ ioActions \subseteq MasterTks
  /\ toInsert \subseteq MasterTks /\ toRemove \subseteq MasterTks
  /\ bytesRead \in [Clients -> 0 .. HeaderSize]
  /\ newRequests \in Seq(Clients) /\ pool \in Seq(Workers)
  /\ lastSend \in Nat
  /\ interest \in [Workers -> {"RO", "RW"}]

WorkersTypeOK ==
  /\ wpc \in [Workers -> MasterPcs \cup {"off"}]
  /\ wready \in [Workers -> SUBSET LoopTks]
  /\ wreadable \in [Workers -> SUBSET LoopTks]
  /\ wwritable \in [Workers -> SUBSET LoopTks]
  /\ served \in [Workers -> Nat]
  /\ wsInterest \in [Workers -> {"RO", "RW"}]
  /\ logOut \in [Workers -> BOOLEAN] /\ logIn \in [Workers -> BOOLEAN]

\* Type invariant: every variable stays in the set its code type allows.
TypeOK ==
  /\ ClientsTypeOK
  /\ MasterTypeOK
  /\ WorkersTypeOK
  /\ chan \in [Workers -> FdStreamType(Clients)]

\* A worker never opens a session on one client's connection with another
\* client's header, whatever way the socket cuts bytes and descriptors apart
\* (runworker/workerstream.rs Inner::read pairs them by position only).
HeaderMatchesDescriptor == \A w \in Workers : Paired(chan[w])

\* When a whole header is in the worker's inbuffer the descriptor it goes
\* with has been received, so that dequeue cannot come back empty and leave
\* the header behind (runworker/workerstream.rs:118).
DescriptorArrivesFirst == \A w \in Workers : DescriptorReady(chan[w])

\* The inductive invariant of all the sockets, from which both follow.
StreamsInv == \A w \in Workers : StreamInv(chan[w])

\* The clients master has queued a request for but whose raw descriptor no
\* sendmsg has passed on yet.
Queued(c) ==
  \/ \E i \in 1 .. Len(newRequests) : newRequests[i] = c
  \/ \E w \in Workers : \E i \in Len(chan[w].at) + 1 .. Len(chan[w].fds) :
       chan[w].fds[i] = c

\* Requests carry a RawFd, a bare number.  Until it has been sent, the stream
\* that owns it stays in io_actions and is not about to leave it, so the
\* number cannot be closed and reused by a later connection (mod.rs:291-294).
QueuedDescriptorOpen ==
  \A c \in Clients :
    Queued(c) => ClientTk(c) \in ioActions \ toRemove

\* No connection is ever handed over twice, to one worker or to two: there
\* is one reader of each client's requests and one session per connection.
OneOwner ==
  /\ \A v, w \in Workers : \A i \in 1 .. Len(chan[v].fds) :
       \A j \in 1 .. Len(chan[w].fds) :
         chan[v].fds[i] = chan[w].fds[j] => v = w /\ i = j
  /\ \A w \in Workers : \A i \in 1 .. Len(chan[w].fds) :
       \A j \in 1 .. Len(newRequests) : chan[w].fds[i] # newRequests[j]

\* Master gives up a client stream (Closed and Error end the same way, and
\* WouldBlock is an Error) only when the client has closed it: an edge that
\* is reported always finds something to read (mod.rs:283-300).
LiveClientNotDropped ==
  \A c \in Clients : ClientTk(c) \in toRemove => Gone(c)

\* Master gives up a worker stream only when the worker has exited, and only
\* through such a stream, which stays in WorkerStreams and is re-registered
\* with its next request, does master itself end (mod.rs:182, 356-360).
LiveWorkerNotDropped ==
  /\ \A w \in InPool : WorkerTk(w) \notin mreg => Exited(w)
  /\ mpc = "dead" => \E w \in InPool : WorkerTk(w) \notin mreg

\* Every event of a batch finds its token in io_actions, although streams
\* enter the map only at the next head of the loop (mod.rs:229-232).
NoOrphanEvent == mreadable \cup mwritable \subseteq ioActions

\* Master does not sleep on undelivered headers: the stream of a live worker
\* has RW interest at the poll exactly when its outbuffer is not
\* empty, and then the edge that will make it write is there or, when a turn
\* of the loop has refilled the outbuffer without re-registering the stream,
\* is still to come from bytes the worker has not read (mod.rs:176-194).
MasterSleepsOnlyWhenArmed ==
  mpc = "poll" =>
    \A w \in InPool : ~Exited(w) =>
      /\ interest[w] = "RW" <=> HasData(chan[w])
      /\ HasData(chan[w]) => WorkerTk(w) \in mready \/ Unread(chan[w]) > 0

-----------------------------------------------------------------------------
(* Liveness *)

\* A connection in the main listener's backlog is accepted, also when several
\* arrive on one edge: accept takes one and re-arms (mod.rs:245-249).
ConnectionAccepted ==
  \A c \in Clients : cpc[c] = "wait" ~>
    ClientTk(c) \in ioActions \cup toInsert \/ mpc = "dead"

\* A header that arrives in pieces is read whole and passed on, unless the
\* client leaves: no piece waits for an edge that never comes.
HelloPassedOn ==
  \A c \in Clients : cpc[c] = "wait" ~>
    bytesRead[c] = HeaderSize \/ Gone(c) \/ mpc = "dead"

\* Headers in an outbuffer are written, across partial writes and a socket that
\* fills up, as long as master and the worker live and the socket is not full
\* for good: a worker that leaves bytes in it has no edge to read them, nor
\* master one to write (runmaster/mod.rs:176-194, 362-367).
OutbufferFlushed ==
  \A w \in Workers :
    \/ <>[]chan[w].full
    \/ HasData(chan[w]) ~> ~HasData(chan[w]) \/ Exited(w) \/ mpc = "dead"

\* A request a worker has taken is answered with a session or its client is
\* turned away or gone.
TakenIsServed ==
  \A w \in Workers : NewMsgs(w) # {} ~>
    \/ Exited(w)
    \/ \A i \in 1 .. Len(chan[w].taken) :
         session[chan[w].taken[i].fd] \in {"rejected", "open", "closed"}

-----------------------------------------------------------------------------
(* What the documentation says, and the code does not do *)

\* "PyProxy Server will assign a unique session_id to every PyProxySession"
\* (doc/source/walkthrough.rst:32).
SessionIdAssigned ==
  \A c \in Clients \ BadClients : cpc[c] = "wait" ~> cpc[c] # "wait"
=============================================================================
