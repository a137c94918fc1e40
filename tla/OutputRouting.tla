--------------------------- MODULE OutputRouting ---------------------------
(***************************************************************************)
(* The way of a worker's output to the clients: master reads the stdout    *)
(* and stderr pipes of its workers line by line (module PipeFrame), and    *)
(* queues the lines of the session that is current on the pipe in that     *)
(* session's output stream, a TCP connection the client has opened to      *)
(* master's second listener and named in its hello.  As in Handoff master  *)
(* is an edge triggered loop, each event of a batch is one step, and a     *)
(* poll may return for events of streams that are not in this module.      *)
(*                                                                         *)
(* What the pipes carry is chosen freely, unit by unit: the marker lines   *)
(* are ordinary text that any Python code may print.  By itself a worker   *)
(* prints none: its logger sends the start marker to master over the       *)
(* worker's unix socket (module WorkerAtoms), where it is dropped.         *)
(*                                                                         *)
(* The lines one read saves are queued in a session's outbuffer as one     *)
(* batch, in their order.  A batch and a hello are two units of transfer   *)
(* each, so that both may be cut.  The outbuffer never forgets: queue is   *)
(* all that was queued, wrote the units of it that were written.           *)
(***************************************************************************)
EXTENDS PipeFrame

CONSTANTS
  Openers,        \* sessions whose client opens its output stream
  Pipes,          \* the stdout and stderr pipes of the workers
  MaxUnits,       \* units the workers print on each pipe
  MaxText,        \* pieces of text a line may consist of
  MayHappen       \* of "bad hello", "close", "partial", "eof", "no stdout",
                  \*   "no accept"

ASSUME OutputAssumption ==
  /\ Openers \subseteq Sessions
  /\ MaxUnits \in Nat /\ MaxText \in Nat

VARIABLES
  frame,          \* the pipe and its PipeFrame, per pipe
  \* per session, its output stream
  place,          \* client, backlog, open (in io_actions), removed
  gone,           \* the client has closed it
  hello,          \* of the hello, what reached the host: none, part, whole, bad
  seen,           \*   and what master's read took
  epoll,          \* registration with epoll: none, RO, RW
  interest,       \* Inner.interest: RO, RW
  named,          \* the stream is in output_streams
  queue,          \* batches of lines put in the outbuffer
  wrote,          \* units of them written to the socket
  full,           \* the socket's send buffer is full
  \* master
  mpc,            \* top of the loop, in poll, in a batch of events
  backlog,        \* connections the output listener has not accepted
  ready,          \* tokens in epoll's ready list
  readable, writable,   \* events of the batch still to handle
  watched,        \* pipes registered with epoll
  toRemove        \* streams and pipes to drop from io_actions

streamVars == <<place, gone, hello, seen, epoll, interest, named, queue, wrote,
                full>>
loopVars   == <<mpc, backlog, ready, readable, writable, watched, toRemove>>
vars       == <<frame, streamVars, loopVars>>

-----------------------------------------------------------------------------
(* Tokens, and what the kernel says of them *)

ListenerTk  == <<"listener">>       \* OUTPUT_LISTENER_TK
StreamTk(s) == <<"stream", s>>
PipeTk(p)   == <<"pipe", p>>

StreamTks == {StreamTk(s) : s \in Sessions}
PipeTks   == {PipeTk(p) : p \in Pipes}
Tokens    == {ListenerTk} \cup StreamTks \cup PipeTks

\* A batch of lines is two units long.
\* Mutant: what has been written stays in the outbuffer.
NothingTruncated(s) == 2 * Len(queue[s])
OutLen(s)     == 2 * Len(queue[s]) - wrote[s]
HasOutData(s) == OutLen(s) > 0

Readable(tk) ==
  \/ tk = ListenerTk /\ backlog # <<>>
  \/ \E s \in Sessions : tk = StreamTk(s) /\ (hello[s] # seen[s] \/ gone[s])
  \/ \E p \in Pipes : tk = PipeTk(p) /\ (Unread(frame[p]) > 0 \/ frame[p].closed)

Writable(tk) ==
  \E s \in Sessions : /\ tk = StreamTk(s)
                      /\ epoll[s] = "RW"
                      /\ ~full[s] \/ gone[s]

\* A descriptor's token enters the ready list while it is registered.
EdgeAt(s) == IF epoll[s] = "none" THEN ready ELSE ready \cup {StreamTk(s)}

-----------------------------------------------------------------------------
(* The client's end of the output stream (client/client/mod.rs) *)

\* connect_output_stream: connect, and write the hello.
StreamConnects(s) ==
  /\ s \in Openers
  /\ place[s] = "client"
  /\ place' = [place EXCEPT ![s] = "backlog"]
  /\ backlog' = Append(backlog, s)
  /\ ready' = ready \cup {ListenerTk}
  /\ UNCHANGED <<frame, gone, hello, seen, epoll, interest, named, queue, wrote,
                 full, mpc, readable, writable, watched, toRemove>>

\* What can follow of the hello; a peer that is no client sends something else.
HelloNext(s) ==
  (IF hello[s] = "none" THEN {"part", "whole"}
   ELSE IF hello[s] = "part" THEN {"whole"} ELSE {})
  \cup (IF hello[s] \in {"none", "part"} /\ "bad hello" \in MayHappen
        THEN {"bad"} ELSE {})

HelloArrives(s, h) ==
  /\ place[s] # "client"
  /\ ~gone[s]
  /\ h \in HelloNext(s)
  /\ hello' = [hello EXCEPT ![s] = h]
  /\ ready' = EdgeAt(s)
  /\ UNCHANGED <<frame, place, gone, seen, epoll, interest, named, queue, wrote,
                 full, mpc, backlog, readable, writable, watched, toRemove>>

StreamCloses(s) ==
  /\ "close" \in MayHappen
  /\ place[s] # "client"
  /\ ~gone[s]
  /\ gone' = [gone EXCEPT ![s] = TRUE]
  /\ ready' = EdgeAt(s)
  /\ UNCHANGED <<frame, place, hello, seen, epoll, interest, named, queue, wrote,
                 full, mpc, backlog, readable, writable, watched, toRemove>>

\* The client reads, and the socket has room again.
SocketDrains(s) ==
  /\ full[s]
  /\ full' = [full EXCEPT ![s] = FALSE]
  /\ ready' = EdgeAt(s)
  /\ UNCHANGED <<frame, place, gone, hello, seen, epoll, interest, named, queue,
                 wrote, mpc, backlog, readable, writable, watched, toRemove>>

-----------------------------------------------------------------------------
(* The workers' end of the pipes *)

\* A line is a marker or up to MaxText pieces of text: a marker with text next
\* to it is text like any other.
MayFollow(line) ==
  IF line = <<>> THEN Units
  ELSE {Newline} \cup {t \in {Text} : Head(line) = Text /\ Len(line) < MaxText}

Prints(p, u) ==
  /\ Len(frame[p].sent) < MaxUnits
  /\ u \in MayFollow(Body(frame[p], 0, Len(frame[p].sent) + 1))
  /\ ~frame[p].closed
  /\ frame' = [frame EXCEPT ![p].sent = Append(@, u)]
  /\ ready' = IF p \in watched THEN ready \cup {PipeTk(p)} ELSE ready
  /\ UNCHANGED <<streamVars, mpc, backlog, readable, writable, watched, toRemove>>

WorkerEnds(p) ==
  /\ "eof" \in MayHappen
  /\ ~frame[p].closed
  /\ frame' = [frame EXCEPT ![p].closed = TRUE]
  /\ ready' = IF p \in watched THEN ready \cup {PipeTk(p)} ELSE ready
  /\ UNCHANGED <<streamVars, mpc, backlog, readable, writable, watched, toRemove>>

-----------------------------------------------------------------------------
(* Master (server/runmaster/mod.rs, outputstream.rs) *)

\* Interest a stream should have, from its outbuffer.
\* Mutant: the rest of a batch does not count.
WantedForWhole(s) == IF OutLen(s) > 1 THEN "RW" ELSE "RO"
Wanted(s) == IF HasOutData(s) THEN "RW" ELSE "RO"

\* Head of the loop: removals, then the interest of every stream in
\* output_streams.  To re-register one that has been deregistered fails, and
\* removes it (again).
MasterLoopHead ==
  /\ mpc = "top"
  /\ mpc' = "poll"
  /\ LET changed == {s \in Sessions : named[s] /\ interest[s] # Wanted(s)}
         alive   == {s \in changed : epoll[s] # "none"} IN
     /\ interest' = [s \in Sessions |->
                       IF s \in changed THEN Wanted(s) ELSE interest[s]]
     /\ epoll' = [s \in Sessions |-> IF s \in alive THEN Wanted(s) ELSE epoll[s]]
     /\ ready' = ready \cup {StreamTk(s) : s \in alive}
     /\ toRemove' = {StreamTk(s) : s \in changed \ alive}
  /\ place' = [s \in Sessions |->
                 IF StreamTk(s) \in toRemove THEN "removed" ELSE place[s]]
  /\ UNCHANGED <<frame, gone, hello, seen, named, queue, wrote, full, backlog,
                 readable, writable, watched>>

MasterPoll ==
  /\ mpc = "poll"
  /\ readable' = {tk \in ready : Readable(tk)}
  /\ writable' = {tk \in ready : Writable(tk)}
  /\ ready' = {}
  /\ mpc' = IF readable' \cup writable' = {} THEN "top" ELSE "batch"
  /\ UNCHANGED <<frame, streamVars, backlog, watched, toRemove>>

HandleEvent(tk) ==
  /\ mpc = "batch"
  /\ tk \in readable \cup writable
  /\ readable' = readable \ {tk}
  /\ writable' = writable \ {tk}
  /\ mpc' = IF (readable \cup writable) \ {tk} = {} THEN "top" ELSE "batch"

\* Output listener: one accept, the stream goes into io_actions at once, and
\* the listener is not re-armed.
MasterAcceptStream ==
  /\ HandleEvent(ListenerTk)
  /\ LET s == Head(backlog) IN
     /\ backlog' = Tail(backlog)
     /\ place' = [place EXCEPT ![s] = "open"]
     /\ epoll' = [epoll EXCEPT ![s] = "RO"]
     /\ ready' = IF hello[s] # "none" \/ gone[s] THEN ready \cup {StreamTk(s)}
                                                ELSE ready
  /\ UNCHANGED <<frame, gone, hello, seen, interest, named, queue, wrote, full,
                 watched, toRemove>>

\* accept fails, no descriptor being left: the connection stays where it is,
\* and the listener without an edge for it.
MasterAcceptFails ==
  /\ "no accept" \in MayHappen
  /\ HandleEvent(ListenerTk)
  /\ UNCHANGED <<frame, streamVars, backlog, ready, watched, toRemove>>

\* Is the stream read?
\* Mutant: it is on every event.
ReadsAlways(s) == StreamTk(s) \in readable \cup writable
Reads(s) == StreamTk(s) \in readable

\* Does a read return an error?  It does for what is no hello, and with nothing
\* to read (WouldBlock); the end of the stream is not taken for an error.
ReadFails(s) == hello[s] = "bad" \/ (hello[s] = seen[s] /\ ~gone[s])

\* Does a write?  It does for a full socket (WouldBlock).
WriteFails(s) == full[s] /\ HasOutData(s) /\ ~gone[s]

\* Does the read complete the hello?
\* Mutant: it has to come in one piece.
CompletesAtOnce(s) == hello[s] = "whole" /\ seen[s] = "none"
Completes(s) == hello[s] = "whole" /\ seen[s] # "whole"

\* Units a write may take: all, unless the socket fills up.
Writes(s) ==
  {OutLen(s)} \cup (IF "partial" \in MayHappen THEN 1 .. OutLen(s) ELSE {})

\* The calls that fail: those that have to, and any of a connection that its
\* client has closed.
Failures(s) ==
  LET must == (IF ReadFails(s) THEN {"read"} ELSE {})
                \cup (IF WriteFails(s) THEN {"write"} ELSE {}) IN
  {F \in SUBSET {"read", "write"} : must \subseteq F /\ (gone[s] \/ F = must)}

\* Output stream, readable: all that has arrived is read; a whole hello names
\* the stream, which is registered RW and entered in output_streams.
\* Writable: one write from the outbuffer.  An error of either deregisters the
\* stream and removes it from io_actions, but not from output_streams.
MasterStream(s) ==
  /\ HandleEvent(StreamTk(s))
  /\ \E failed \in Failures(s) :
       LET reads  == Reads(s)
           writes == StreamTk(s) \in writable /\ "write" \notin failed
           names  == reads /\ "read" \notin failed /\ Completes(s)
           fails  == \/ reads /\ "read" \in failed
                     \/ StreamTk(s) \in writable /\ "write" \in failed IN
       /\ seen' = [seen EXCEPT ![s] = IF reads THEN hello[s] ELSE @]
       /\ named' = [named EXCEPT ![s] = @ \/ names]
       /\ \E n \in IF writes THEN Writes(s) ELSE {0} :
            /\ wrote' = [wrote EXCEPT ![s] = @ + n]
            /\ full' = [full EXCEPT ![s] = @ \/ (writes /\ n < OutLen(s))]
       /\ IF fails
          THEN /\ epoll' = [epoll EXCEPT ![s] = "none"]
               /\ ready' = ready \ {StreamTk(s)}
               /\ toRemove' = toRemove \cup {StreamTk(s)}
          ELSE /\ epoll' = [epoll EXCEPT ![s] = IF names THEN "RW" ELSE @]
               /\ ready' = IF names THEN ready \cup {StreamTk(s)} ELSE ready
               /\ UNCHANGED toRemove
  /\ UNCHANGED <<frame, place, gone, hello, interest, queue, backlog, watched>>

\* The lines the parsed frame f of pipe p returns go to the stream of the one
\* session that is current at the end of the read; without a stream of that
\* name they are lost.
\* Mutant: they go to the session that was current before the read.
QueuedBefore(p, f) ==
  LET s == f.current IN
  IF s # NoSession /\ named[s] /\ Saved(f) # {}
  THEN [queue EXCEPT ![s] = Append(@, [pipe |-> p, from |-> f.from, lines |-> Saved(f)])]
  ELSE queue
Queued(p, f) ==
  LET s == Parse(f).current IN
  IF s # NoSession /\ named[s] /\ Saved(f) # {}
  THEN [queue EXCEPT ![s] = Append(@, [pipe |-> p, from |-> f.from, lines |-> Saved(f)])]
  ELSE queue

\* What a read leaves in the buffer: with no session current it returns
\* nothing, and clear is not called.
\* Mutant: it is not called for a read without lines either.
KeptWithoutLines(f) == IF Saved(f) = {} THEN Parse(f) ELSE Clear(Parse(f))
Kept(f) == IF Parse(f).current = NoSession THEN Parse(f) ELSE Clear(Parse(f))

\* Stdout or stderr of a worker.  Reading goes on at the end of the pipe: it
\* returns no bytes, and the buffer is looked through once more.
MasterPipe(p) ==
  /\ HandleEvent(PipeTk(p))
  /\ \E f \in {Fill(frame[p])} :
     /\ queue' = Queued(p, f)
     /\ frame' = [frame EXCEPT ![p] = Kept(f)]
  /\ UNCHANGED <<place, gone, hello, seen, epoll, interest, named, wrote, full,
                 backlog, ready, watched, toRemove>>

\* Master's own output cannot be written: the first line to be echoed ends
\* the read with an error, and the pipe is deregistered and removed.
MasterPipeFails(p) ==
  /\ "no stdout" \in MayHappen
  /\ Echoed(Fill(frame[p])) # {}
  /\ HandleEvent(PipeTk(p))
  /\ frame' = [frame EXCEPT ![p] = [Fill(@) EXCEPT !.current = NoSession]]
  /\ watched' = watched \ {p}
  /\ ready' = ready \ {PipeTk(p)}
  /\ toRemove' = toRemove \cup {PipeTk(p)}
  /\ UNCHANGED <<streamVars, backlog>>

-----------------------------------------------------------------------------
Init ==
  /\ frame = [p \in Pipes |-> NewFrame]
  /\ place = [s \in Sessions |-> "client"]
  /\ gone = [s \in Sessions |-> FALSE]
  /\ hello = [s \in Sessions |-> "none"]
  /\ seen = [s \in Sessions |-> "none"]
  /\ epoll = [s \in Sessions |-> "none"]
  /\ interest = [s \in Sessions |-> "RO"]
  /\ named = [s \in Sessions |-> FALSE]
  /\ queue = [s \in Sessions |-> <<>>]
  /\ wrote = [s \in Sessions |-> 0]
  /\ full = [s \in Sessions |-> FALSE]
  /\ mpc = "top"
  /\ backlog = <<>>
  /\ ready = {} /\ readable = {} /\ writable = {}
  /\ watched = Pipes
  /\ toRemove = {}

StreamStep(s) ==
  \/ StreamConnects(s)
  \/ \E h \in {"part", "whole", "bad"} : HelloArrives(s, h)
  \/ StreamCloses(s)
  \/ SocketDrains(s)

PipeStep(p) ==
  \/ \E u \in Units : Prints(p, u)
  \/ WorkerEnds(p)

MasterStep ==
  \/ MasterLoopHead
  \/ MasterPoll
  \/ MasterAcceptStream \/ MasterAcceptFails
  \/ \E s \in Sessions : MasterStream(s)
  \/ \E p \in Pipes : MasterPipe(p) \/ MasterPipeFails(p)

Next ==
  \/ \E s \in Sessions : StreamStep(s)
  \/ \E p \in Pipes : PipeStep(p)
  \/ MasterStep

Spec == Init /\ [][Next]_vars

-----------------------------------------------------------------------------
(* Fairness: master's loop goes on, its poll returns when a registered      *)
(* descriptor is ready, and the network delivers: a hello that has begun    *)
(* arrives, a full socket drains while the client reads.  Nothing is        *)
(* assumed of what clients and workers choose to do.                        *)

MasterRuns ==
  \/ MasterLoopHead
  \/ MasterPoll /\ mpc' = "batch"
  \/ MasterAcceptStream \/ MasterAcceptFails
  \/ \E s \in Sessions : MasterStream(s)
  \/ \E p \in Pipes : MasterPipe(p) \/ MasterPipeFails(p)

Fairness ==
  /\ WF_vars(MasterRuns)
  /\ \A s \in Openers : /\ WF_vars(HelloArrives(s, "whole"))
                        /\ WF_vars(SocketDrains(s))

FairSpec == Spec /\ Fairness

-----------------------------------------------------------------------------
(* Properties *)

\* What one read queued for one session: where the buffer began, and the
\* newlines that ended the lines.
Batches == [pipe: Pipes, from: Nat, lines: SUBSET Nat]

Hellos == {"none", "part", "whole", "bad"}

StreamsTypeOK ==
  /\ place \in [Sessions -> {"client", "backlog", "open", "removed"}]
  /\ gone \in [Sessions -> BOOLEAN]
  /\ hello \in [Sessions -> Hellos] /\ seen \in [Sessions -> Hellos]
  /\ epoll \in [Sessions -> {"none", "RO", "RW"}]
  /\ interest \in [Sessions -> {"RO", "RW"}]
  /\ named \in [Sessions -> BOOLEAN]
  /\ \A s \in Sessions : \A i \in 1 .. Len(queue[s]) :
       /\ queue[s][i].pipe \in Pipes
       /\ queue[s][i].lines \subseteq 1 .. frame[queue[s][i].pipe].read
  /\ wrote \in [Sessions -> Nat]
  /\ full \in [Sessions -> BOOLEAN]

\* Type invariant of the loop, the pipes and the output streams; a batch's
\* lines are lines of its pipe, and no more is written than was queued.
TypeOK ==
  /\ frame \in [Pipes -> PipeFrameType]
  /\ StreamsTypeOK
  /\ \A s \in Sessions : wrote[s] <= 2 * Len(queue[s])
  /\ mpc \in {"top", "poll", "batch"}
  /\ backlog \in Seq(Sessions)
  /\ ready \subseteq Tokens /\ readable \subseteq Tokens /\ writable \subseteq StreamTks
  /\ watched \subseteq Pipes
  /\ toRemove \subseteq StreamTks \cup PipeTks

\* The newline that clear left at the front of the buffer, of a line that was
\* read before: queued once more it is a line without text, which nobody
\* printed, and a test expects none ("assert output == [(1, 'hello world')]",
\* tests/simple.py:45).
KeptNewline(b) == IF b.from = 0 THEN {} ELSE {b.from + 1}

\* No line is torn: whatever way the reads cut the output, what is queued for
\* a session are lines as the worker printed them, from newline to newline,
\* and besides at most one empty line to a batch, of the newline that an
\* earlier clear kept (pipeframe.rs:34-94).
QueuedLinesWhole ==
  [][\A s \in Sessions : Len(queue'[s]) > Len(queue[s]) =>
       LET b == queue'[s][Len(queue'[s])]  f == frame'[b.pipe] IN
       /\ \A j \in b.lines \ KeptNewline(b) : Body(f, b.from, j) = Body(f, 0, j)
       /\ \A j \in b.lines \cap KeptNewline(b) :
            j <= frame[b.pipe].read /\ Body(f, b.from, j) = <<>>]_vars

\* Batches a and b overlap only in the newline that clear kept for one.
Apart(a, b) == Max(a.lines) <= b.from + 1 \/ Max(b.lines) <= a.from + 1

\* No line is queued twice, for one session or for two, although a read looks
\* again at all that is in the buffer: only the newline clear kept comes back,
\* as an empty line; and each session's lines of one pipe
\* are queued in the order they were printed.
LineQueuedOnce ==
  \A s, t \in Sessions : \A i \in 1 .. Len(queue[s]) : \A j \in 1 .. Len(queue[t]) :
    LET a == queue[s][i]  b == queue[t][j] IN
    a.pipe = b.pipe =>
      /\ s # t \/ i # j => Apart(a, b)
      /\ s = t /\ i < j => Max(a.lines) <= b.from + 1

\* While a session is current no complete line of it stays behind in the
\* buffer: the next edge may be a long time coming (mod.rs:384-391).
NoLineHeldBack ==
  \A p \in Pipes :
    frame[p].current # NoSession => Lines(frame[p]) \subseteq {frame[p].from + 1}

\* The session a line belongs to is that of the last marker line before it.
PrintedIn(p, j) == SessionAfter(frame[p], 0, NoSession, j - 1)

\* The session current on a pipe is the one of the last marker line in all the
\* worker printed that was read, although reads cut the markers, each looks
\* at the buffer from its front again and clear drops the front
\* (pipeframe.rs:34-94).
CurrentAsPrinted ==
  \A p \in watched : frame[p].current = PrintedIn(p, frame[p].read + 1)

\* A line reaches the session it was printed for when no marker line follows
\* it in the read that saves it (pipeframe.rs:48-84, mod.rs:384-391).
TailReachesItsSession ==
  [][\A s \in Sessions : Len(queue'[s]) > Len(queue[s]) =>
       LET b == queue'[s][Len(queue'[s])]  f == frame'[b.pipe] IN
       \A j \in b.lines :
         (\A k \in j + 1 .. f.read : ~IsMarker(f, 0, k)) =>
           SessionAfter(f, 0, NoSession, j) = s]_vars

\* Master gives up an output stream only when its client has closed it or has
\* sent something else than a hello: no read finds nothing and no write a full
\* socket, which would count as errors (mod.rs:304-328).
LiveStreamNotDropped ==
  \A s \in Sessions : StreamTk(s) \in toRemove => gone[s] \/ hello[s] = "bad"

\* A hello that arrives on an accepted stream names it, in one piece or two.
HelloNames ==
  \A s \in Sessions :
    place[s] = "open" /\ hello[s] = "whole" ~> named[s] \/ gone[s]

\* What a worker prints is read, as long as master can write its own output
\* and there is never more in the pipe than one read takes: master reads once
\* to an edge (pipeframe.rs:34, mod.rs:375-393).
PipeRead ==
  \A p \in Pipes :
    [](Unread(frame[p]) <= ReadUnits) =>
      (Unread(frame[p]) > 0 ~> Unread(frame[p]) = 0 \/ p \notin watched)

\* Lines queued on a stream at rest (interest RO) are written, in one write or
\* across a full socket.
FlushedFromRest ==
  \A s \in Sessions :
    HasOutData(s) /\ interest[s] = "RO" ~> ~HasOutData(s) \/ gone[s]

-----------------------------------------------------------------------------
(* What the documentation says, and the code does not do *)

\* The server does "some clever multiplexing of many main-stream over a process
\* pool and server-push stdout/stderr bytes to the relevant PyProxySession as
\* required" (doc/source/intro-abstractions.rst:79-81): a session is sent the
\* lines printed while it was current.
LineReachesItsSession ==
  \A s \in Sessions : \A i \in 1 .. Len(queue[s]) :
    LET b == queue[s][i] IN
    \A j \in b.lines \ KeptNewline(b) : PrintedIn(b.pipe, j) = s
=============================================================================
