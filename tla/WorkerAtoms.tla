---------------------------- MODULE WorkerAtoms ----------------------------
(***************************************************************************)
(* How a worker runs the code its sessions send (server/runworker): its    *)
(* loop reads requests from the client streams, logs them and passes them  *)
(* over a channel to one interpreter thread, which runs the atoms of all   *)
(* sessions one after the other.  Loop and thread share the outbuffer of   *)
(* the worker's stream to master, into which both append log messages      *)
(* under a mutex, and which only the loop writes to the socket.            *)
(*                                                                         *)
(* The sessions are open (module Handoff is about how they become so): the *)
(* greeting is written, and each client stream is registered for reading   *)
(* only, for nothing is ever sent on it again.  The loop is edge triggered *)
(* as in Handoff, and may wake for requests of master that are not here.   *)
(*                                                                         *)
(* A request is ReqUnits units long, the first its header; a log message   *)
(* two, so that both may be cut.  log is all that was ever put in the      *)
(* outbuffer; wrote and logRead count the units that were written to the   *)
(* socket and read by master.                                              *)
(***************************************************************************)
EXTENDS Integers, Sequences, FiniteSetsExt

CONSTANTS
  Sessions,
  NoSession,
  Garblers,       \* sessions whose last request is not a well-formed one
  MaxReqs,        \* requests each session sends
  ReqUnits,       \* units of a request
  ReadUnits,      \* units that fit in the buffer of one read
  MayHappen       \* of "close", "partial", "raises"

ASSUME WorkerAtomsAssumption ==
  /\ NoSession \notin Sessions
  /\ Garblers \subseteq Sessions
  /\ MaxReqs \in Nat \ {0}
  /\ ReqUnits \in Nat \ {0}
  /\ ReadUnits \in Nat \ {0}

VARIABLES
  \* the client streams
  arrived,        \* units of requests that reached the worker's host
  closed,         \* the client has closed the connection
  read,           \* units the worker has read
  taken,          \* requests popped from req_msgs
  watched,        \* sessions whose stream is registered
  \* the loop
  wpc,            \* top, drain, send, or batch
  turn,           \* the session whose req_msgs are being drained
  ready,          \* tokens in epoll's ready list
  readable,       \* events of the batch still to handle: client streams
  writable,       \*   and the worker stream, to be written
  wsInterest,     \* interest of the worker stream: RO, RW
  \* the interpreter thread
  channel,        \* atoms sent to it
  ipc,            \* idle, started, ran
  atom,           \* the one it works on
  run,            \* atoms it has run
  \* the log on its way to master
  log, wrote, logRead,
  full,           \* the worker's side of the socket is full
  mready          \* master has an edge of it

clientVars == <<arrived, closed, read, taken, watched>>
loopVars   == <<wpc, turn, ready, readable, writable, wsInterest>>
threadVars == <<channel, ipc, atom, run>>
logVars    == <<log, wrote, logRead, full, mready>>
vars       == <<clientVars, loopVars, threadVars, logVars>>

Atoms == Sessions \X (1 .. MaxReqs)
NoAtom == <<NoSession, 0>>

-----------------------------------------------------------------------------
(* Client streams (clientstream.rs) *)

StreamTk == NoSession           \* WORKER_STREAM_TK; a client's is its session

\* Well-formed requests the session sends before the garbled one.
GoodReqs(s) == IF s \in Garblers THEN MaxReqs - 1 ELSE MaxReqs

\* The requests that read has pushed to req_msgs: those that are whole.
Parsed(s) == Min({read[s] \div ReqUnits, GoodReqs(s)})

\* Requests in req_msgs, also of a stream that is deregistered.
\* Mutant: a stream that is given up is dropped with them.
PendingWatched(s) == s \in watched /\ Parsed(s) > taken[s]
Pending(s) == Parsed(s) > taken[s]

\* Does a read that leaves the count at n end in an error?  So it does at the
\* end of the stream and at a header that is none.
\* Mutant: and when it ends inside a request.
PartFails(s, n) == n = read[s] \/ n > ReqUnits * GoodReqs(s) \/ n % ReqUnits # 0
ReadFails(s, n) == n = read[s] \/ n > ReqUnits * GoodReqs(s)

EdgeAt(s) == IF s \in watched THEN ready \cup {s} ELSE ready

\* Bytes of requests arrive; the client need not wait for any answer.
ClientSends(s, n) ==
  /\ ~closed[s]
  /\ arrived[s] + n <= ReqUnits * MaxReqs
  /\ arrived' = [arrived EXCEPT ![s] = @ + n]
  /\ ready' = EdgeAt(s)
  /\ UNCHANGED <<closed, read, taken, watched, wpc, turn, readable, writable,
                 wsInterest, threadVars, logVars>>

ClientCloses(s) ==
  /\ "close" \in MayHappen
  /\ ~closed[s]
  /\ closed' = [closed EXCEPT ![s] = TRUE]
  /\ ready' = EdgeAt(s)
  /\ UNCHANGED <<arrived, read, taken, watched, wpc, turn, readable, writable,
                 wsInterest, threadVars, logVars>>

-----------------------------------------------------------------------------
(* The log (workerstream.rs) *)

Kinds == {"queueing", "start", "error", "finished"}
Message(kind, a) == [kind |-> kind, atom |-> a]

\* Bytes in the outbuffer.
\* Mutant: what has been written stays there.
NothingTruncated == 2 * Len(log)
LogLen == 2 * Len(log) - wrote

\* Logger.log and Logger.print append to the outbuffer, and wake nobody.
Logs(messages) ==
  /\ log' = log \o messages
  /\ UNCHANGED <<wrote, logRead, full, mready>>

-----------------------------------------------------------------------------
(* The loop (runworker/mod.rs) *)

WantedInterest == IF LogLen > 0 THEN "RW" ELSE "RO"

\* Top of the loop: the worker stream is re-registered when its interest does
\* not fit its outbuffer.  That is before the requests are drained and logged.
LoopTop ==
  /\ wpc = "top"
  /\ wpc' = "drain"
  /\ wsInterest' = WantedInterest
  /\ ready' = IF WantedInterest # wsInterest THEN ready \cup {StreamTk} ELSE ready
  /\ UNCHANGED <<clientVars, turn, readable, writable, threadVars, logVars>>

\* What is logged of the request that is popped.
\* Mutant: only the first of each turn is logged.
QueueingOfTurn(s) == IF turn = NoSession THEN <<Message("queueing", <<s, taken[s] + 1>>)>> ELSE <<>>
Queueing(s) == <<Message("queueing", <<s, taken[s] + 1>>)>>

\* One request of a session is popped and logged ...
LogRequest(s) ==
  /\ wpc = "drain"
  /\ turn \in {s, NoSession}
  /\ Pending(s)
  /\ taken' = [taken EXCEPT ![s] = @ + 1]
  /\ wpc' = "send" /\ turn' = s
  /\ Logs(Queueing(s))
  /\ UNCHANGED <<arrived, closed, read, watched, ready, readable, writable,
                 wsInterest, threadVars>>

\* The channel with one more atom.
\* Mutant: the newest is received first.
SentInFront(a) == <<a>> \o channel
Sent(a) == Append(channel, a)

\* ... and sent to the thread; the session's next one follows.
SendRequest ==
  /\ wpc = "send"
  /\ channel' = Sent(<<turn, taken[turn]>>)
  /\ wpc' = "drain"
  /\ turn' = IF Pending(turn) THEN turn ELSE NoSession
  /\ UNCHANGED <<clientVars, ready, readable, writable, wsInterest, ipc, atom,
                 run, logVars>>

\* With all requests drained the loop sleeps in poll, without a timeout.
Poll ==
  /\ wpc = "drain"
  /\ \A s \in Sessions : ~Pending(s)
  /\ readable' = {s \in ready \cap Sessions : arrived[s] > read[s] \/ closed[s]}
  /\ writable' = (StreamTk \in ready /\ wsInterest = "RW" /\ ~full)
  /\ ready' = {}
  /\ wpc' = IF readable' = {} /\ ~writable' THEN "top" ELSE "batch"
  /\ UNCHANGED <<clientVars, turn, wsInterest, threadVars, logVars>>

\* A client stream is read once, and what is left waits for another edge.  An
\* error deregisters the stream; what was parsed before it stays in req_msgs.
ReadClient(s) ==
  /\ wpc = "batch"
  /\ s \in readable
  /\ readable' = readable \ {s}
  /\ wpc' = IF readable' = {} /\ ~writable THEN "top" ELSE "batch"
  /\ \E n \in {Min({read[s] + ReadUnits, arrived[s]})} :
       /\ read' = [read EXCEPT ![s] = n]
       /\ IF ReadFails(s, n)
          THEN watched' = watched \ {s} /\ ready' = ready \ {s}
          ELSE UNCHANGED <<watched, ready>>
  /\ UNCHANGED <<arrived, closed, taken, turn, writable, wsInterest, threadVars,
                 logVars>>

\* The worker stream is written: all, unless the socket fills up.
WriteLog ==
  /\ wpc = "batch"
  /\ writable
  /\ writable' = FALSE
  /\ wpc' = IF readable = {} THEN "top" ELSE "batch"
  /\ \E n \in {LogLen} \cup (IF "partial" \in MayHappen THEN 1 .. LogLen ELSE {}) :
       /\ wrote' = wrote + n
       /\ full' = (n < LogLen)
       /\ mready' = (mready \/ n > 0)
  /\ UNCHANGED <<clientVars, turn, ready, readable, wsInterest, threadVars, log,
                 logRead>>

-----------------------------------------------------------------------------
(* The interpreter thread (pythread.rs) *)

\* It receives an atom and prints the start marker, to the log.
StartAtom ==
  /\ ipc = "idle"
  /\ channel # <<>>
  /\ channel' = Tail(channel)
  /\ ipc' = "started" /\ atom' = Head(channel)
  /\ Logs(<<Message("start", Head(channel))>>)
  /\ UNCHANGED <<clientVars, loopVars, run>>

\* The code is run; its result is dropped, an exception is logged.
RunAtom(raises) ==
  /\ ipc = "started"
  /\ raises => "raises" \in MayHappen
  /\ ipc' = "ran"
  /\ run' = Append(run, atom)
  /\ Logs(IF raises THEN <<Message("error", atom)>> ELSE <<>>)
  /\ UNCHANGED <<clientVars, loopVars, channel, atom>>

FinishAtom ==
  /\ ipc = "ran"
  /\ ipc' = "idle" /\ atom' = NoAtom
  /\ Logs(<<Message("finished", atom)>>)
  /\ UNCHANGED <<clientVars, loopVars, channel, run>>

-----------------------------------------------------------------------------
(* Master (runmaster/workerstream.rs) *)

\* Master reads once per edge, what fits in its buffer.  The worker gets an edge
\* of the room this makes in the socket; but when the socket was full and bytes
\* are left in it, it may still be full, and then neither side gets one.
MasterReads ==
  /\ mready
  /\ mready' = FALSE
  /\ logRead' = Min({logRead + ReadUnits, wrote})
  /\ full' \in {FALSE, full /\ logRead' < wrote}
  /\ ready' = IF full' THEN ready ELSE ready \cup {StreamTk}
  /\ UNCHANGED <<clientVars, wpc, turn, readable, writable, wsInterest,
                 threadVars, log, wrote>>

-----------------------------------------------------------------------------
Init ==
  /\ arrived = [s \in Sessions |-> 0]
  /\ closed = [s \in Sessions |-> FALSE]
  /\ read = [s \in Sessions |-> 0]
  /\ taken = [s \in Sessions |-> 0]
  /\ watched = Sessions
  /\ wpc = "top" /\ turn = NoSession
  /\ ready = {} /\ readable = {} /\ writable = FALSE
  /\ wsInterest = "RO"
  /\ channel = <<>> /\ ipc = "idle" /\ atom = NoAtom /\ run = <<>>
  /\ log = <<>> /\ wrote = 0 /\ logRead = 0
  /\ full = FALSE /\ mready = FALSE

ClientStep(s) ==
  \/ \E n \in 1 .. ReqUnits : ClientSends(s, n)
  \/ ClientCloses(s)

LoopStep ==
  \/ LoopTop
  \/ \E s \in Sessions : LogRequest(s) \/ ReadClient(s)
  \/ SendRequest
  \/ Poll
  \/ WriteLog

ThreadStep == StartAtom \/ (\E raises \in BOOLEAN : RunAtom(raises)) \/ FinishAtom

Next ==
  \/ \E s \in Sessions : ClientStep(s)
  \/ LoopStep
  \/ ThreadStep
  \/ MasterReads

Spec == Init /\ [][Next]_vars

\* Fairness: the loop goes on, its poll returns when a descriptor is ready;
\* the thread goes on, which is to say that the code it runs comes to an end;
\* and so does master.  Clients do as they please.
LoopRuns ==
  \/ LoopTop
  \/ \E s \in Sessions : LogRequest(s) \/ ReadClient(s)
  \/ SendRequest
  \/ Poll /\ wpc' = "batch"
  \/ WriteLog

FairSpec ==
  /\ Spec
  /\ WF_vars(LoopRuns)
  /\ WF_vars(ThreadStep)
  /\ WF_vars(MasterReads)

-----------------------------------------------------------------------------
(* Properties *)

\* Type invariant: counts do not overtake one another, and every atom that is
\* in the channel or has been run was taken from its session's requests.
TypeOK ==
  /\ arrived \in [Sessions -> Nat] /\ read \in [Sessions -> Nat]
  /\ taken \in [Sessions -> Nat]
  /\ \A s \in Sessions : taken[s] <= Parsed(s) /\ read[s] <= arrived[s]
  /\ closed \in [Sessions -> BOOLEAN]
  /\ watched \subseteq Sessions
  /\ wpc \in {"top", "drain", "send", "batch"}
  /\ turn \in Sessions \cup {NoSession}
  /\ ready \subseteq Sessions \cup {StreamTk} /\ readable \subseteq Sessions
  /\ writable \in BOOLEAN /\ wsInterest \in {"RO", "RW"}
  /\ channel \in Seq(Atoms) /\ run \in Seq(Atoms)
  /\ ipc \in {"idle", "started", "ran"} /\ atom \in Atoms \cup {NoAtom}
  /\ log \in Seq([kind: Kinds, atom: Atoms])
  /\ wrote \in Nat /\ logRead \in Nat
  /\ logRead <= wrote /\ wrote <= 2 * Len(log)
  /\ full \in BOOLEAN /\ mready \in BOOLEAN

\* The log tells one story of each atom, though two threads write it: it is
\* queued before it starts, starts before it is finished, and is finished
\* before another one starts (runworker/mod.rs:109-122, pythread.rs:42-61).
LogTellsOrder ==
  /\ \A i \in 1 .. Len(log) : log[i].kind = "start" =>
       \E j \in 1 .. i - 1 : log[j] = Message("queueing", log[i].atom)
  /\ \A i \in 1 .. Len(log) : log[i].kind = "finished" =>
       \E j \in 1 .. i - 1 : log[j] = Message("start", log[i].atom)
  /\ \A i, k \in 1 .. Len(log) :
       i < k /\ log[i].kind = "start" /\ log[k].kind = "start" =>
         \E j \in i + 1 .. k - 1 : log[j] = Message("finished", log[i].atom)

\* A client stream is given up only once its last byte before the close has been
\* read, or a byte behind its good requests: never for a request cut by a read
\* (runworker/clientstream.rs:88-126), and never for what another session did.
OnlyBrokenGivenUp ==
  \A s \in Sessions \ watched :
    \/ closed[s] /\ read[s] = arrived[s]
    \/ read[s] > ReqUnits * GoodReqs(s)

\* A request that has been read whole is run, also when its client has closed
\* the connection since or sent garbage behind it.
RequestReadIsRun ==
  \A a \in Atoms : Parsed(a[1]) >= a[2] ~> \E i \in 1 .. Len(run) : run[i] = a


-----------------------------------------------------------------------------
(* What the documentation says, and the code does not do *)

\* eval "is used for sending code to be executed by the server"
\* (doc/source/walkthrough.rst:86): a request that has arrived whole is run,
\* whether or not another one follows it.
RequestSentIsRun ==
  \A a \in Atoms :
    arrived[a[1]] >= ReqUnits * a[2] /\ a[2] <= GoodReqs(a[1]) ~>
      \/ \E i \in 1 .. Len(run) : run[i] = a
      \/ closed[a[1]]
=============================================================================
