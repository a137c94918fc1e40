---------------------------- MODULE ClientThread ----------------------------
(***************************************************************************)
(* A connected PyProxySession in the client: the Python thread that calls  *)
(* eval, wait, output and disconnect, and the background thread that owns  *)
(* the two streams (client/client/mod.rs).  They share three mpsc channels *)
(* and one result channel per future.  The Python thread is one actor: the *)
(* extension never gives up the interpreter lock, so a second Python       *)
(* thread could not run while the first one is blocked in wait.            *)
(*                                                                         *)
(* Every message on the main stream, and every line on the output stream,  *)
(* counts FrameLen units, so that transfers may stop inside of one.  A     *)
(* stream's units are never taken out, positions are counts into them.     *)
(* Eval ids are the random future ids of Python; two never coincide here.  *)
(***************************************************************************)
EXTENDS Integers, Sequences

CONSTANTS
  Ids,            \* the future ids of the evals that are called
  MaxLines,       \* output lines the server pushes
  BufUnits,       \* units one read can return: the 4096 byte buffer
  MayHappen       \* which of Python's other calls, and of the failures, occur

ASSUME ClientThreadAssumption ==
  /\ MaxLines \in Nat /\ BufUnits \in Nat \ {0}
  /\ MayHappen \subseteq {"wait", "timeout", "disconnect", "drop", "close", "partial"}

\* The ids are random numbers, and never one of the other outcomes of a wait.
ASSUME IdsAssumption == Ids \cap {"none", "closed", "timeout"} = {}

\* Units in a message.
FrameLen == 2

VARIABLES
  \* Python's side
  issued,         \* evals that returned a Future
  handle,         \* PyProxyClient.handle holds the thread
  reported,       \* times the thread's error has been raised to the caller
  waiting,        \* the future Python is blocked on in wait, a set of <= 1
  outcome,        \* what the last finished wait of each future gave
  closeSent,      \* disconnect has been called
  dropped,        \* the PyProxyClient object has been freed
  seen,           \* output lines next_output has returned
  \* channels
  codeq,          \* code_send to code_recv
  sender,         \* where each future's sender is: none, queue, map, gone
  mail,           \* each future's result channel
  lines,          \* output lines sent to thread_recv
  \* the background thread
  tpc,            \* connect, top, head, poll, batch, read, ended, finished
  tres,           \* how it ended: none, ok, err
  queued,         \* ids whose request was put in the outbuffer
  wrote,          \* units of requests written
  interest,       \* "RO" or "RW"
  mainEdge, outEdge,      \* epoll's ready list
  mainEvent, outEvent,    \* events of the batch still to handle
  readUnits,      \* units read from the main stream
  handled,        \* responses taken with next_resp_msg
  outRead,        \* units read from the output stream
  \* the network and the server
  full,           \* the last write was partial, the socket is full since
  resps,          \* responses the server has sent, in its order
  arrived,        \* units of them that have reached the client
  outArrived,     \* units of output that have
  eof, outEof     \* the server has closed a stream

pyVars   == <<issued, handle, reported, waiting, outcome, closeSent, dropped, seen>>
mailVars == <<sender, mail>>
loopVars == <<queued, wrote, interest, readUnits, handled, outRead>>
evVars   == <<mainEvent, outEvent>>
edgeVars == <<mainEdge, outEdge>>
netVars  == <<full, resps, arrived, outArrived, eof, outEof>>
vars     == <<pyVars, codeq, mailVars, lines, tpc, tres, loopVars, evVars,
              edgeVars, netVars>>

Outcomes == {"none", "closed", "timeout"} \cup Ids

ElementsOf(s) == {s[i] : i \in 1 .. Len(s)}

Smaller(a, b) == IF a < b THEN a ELSE b

Ended == tpc \in {"ended", "finished"}

\* Mutant: the whole buffer is taken, and not the part the read has filled.
WholeBuffer(left) == BufUnits

\* Units that one read takes of those that are left.
OneRead(left) == Smaller(left, BufUnits)

OutUnits   == FrameLen * Len(queued) - wrote
MainReady  == arrived > readUnits \/ eof
MainWrites == interest = "RW" /\ ~full

\* Whole responses read so far.
Parsed == readUnits \div FrameLen

-----------------------------------------------------------------------------
(* Python (client/client/mod.rs, client/client/future.rs, pyproxy/) *)

Free == ~dropped /\ waiting = {}

\* eval_str of a running thread: the code is queued, and a Future returned.
\* Once the thread has let go of the channel the send fails, with no change.
Eval(id) ==
  /\ Free /\ id \notin issued
  /\ handle /\ ~Ended
  /\ issued' = issued \cup {id}
  /\ codeq' = Append(codeq, id)
  /\ sender' = [sender EXCEPT ![id] = "queue"]
  /\ UNCHANGED <<handle, reported, waiting, outcome, closeSent, dropped, seen,
                 mail, lines, tpc, tres, loopVars, evVars, edgeVars, netVars>>

\* Mutant: the handle is kept after its thread has been joined.
HandleKept ==
  /\ Free /\ handle /\ tpc = "finished"
  /\ reported' = IF tres = "err" THEN reported + 1 ELSE reported
  /\ reported <= 1
  /\ UNCHANGED <<issued, handle, waiting, outcome, closeSent, dropped, seen,
                 codeq, mailVars, lines, tpc, tres, loopVars, evVars, edgeVars,
                 netVars>>

\* check_thread finds the thread finished: it is joined and its error raised.
\* Later calls find no handle.
CheckThreadFails ==
  /\ Free /\ handle /\ tpc = "finished"
  /\ handle' = FALSE
  /\ reported' = IF tres = "err" THEN reported + 1 ELSE reported
  /\ UNCHANGED <<issued, waiting, outcome, closeSent, dropped, seen, codeq,
                 mailVars, lines, tpc, tres, loopVars, evVars, edgeVars, netVars>>

\* Future.wait starts: from here Python is blocked in recv.
Wait(id) ==
  /\ "wait" \in MayHappen
  /\ waiting = {} /\ id \in issued
  /\ waiting' = {id}
  /\ UNCHANGED <<issued, handle, reported, outcome, closeSent, dropped, seen,
                 codeq, mailVars, lines, tpc, tres, loopVars, evVars, edgeVars,
                 netVars>>

\* recv takes a result out of the channel, or fails when the channel is empty
\* and its sender gone.
WaitReturns(id) ==
  /\ id \in waiting
  /\ mail[id] # <<>> \/ sender[id] = "gone"
  /\ waiting' = {}
  /\ IF mail[id] # <<>>
     THEN /\ outcome' = [outcome EXCEPT ![id] = Head(mail[id])]
          /\ mail' = [mail EXCEPT ![id] = Tail(@)]
     ELSE /\ outcome' = [outcome EXCEPT ![id] = "closed"]
          /\ UNCHANGED mail
  /\ UNCHANGED <<issued, handle, reported, closeSent, dropped, seen, codeq,
                 sender, lines, tpc, tres, loopVars, evVars, edgeVars, netVars>>

\* wait was given a timeout and it has passed.
WaitTimesOut(id) ==
  /\ "timeout" \in MayHappen
  /\ id \in waiting
  /\ mail[id] = <<>> /\ sender[id] # "gone"
  /\ waiting' = {}
  /\ outcome' = [outcome EXCEPT ![id] = "timeout"]
  /\ UNCHANGED <<issued, handle, reported, closeSent, dropped, seen, codeq,
                 mailVars, lines, tpc, tres, loopVars, evVars, edgeVars, netVars>>

\* next_output returns a line; with none it returns or raises, unchanged.
NextOutput ==
  /\ Free /\ seen < lines
  /\ seen' = seen + 1
  /\ UNCHANGED <<issued, handle, reported, waiting, outcome, closeSent, dropped,
                 codeq, mailVars, lines, tpc, tres, loopVars, evVars, edgeVars,
                 netVars>>

Disconnect ==
  /\ "disconnect" \in MayHappen
  /\ Free /\ ~closeSent
  /\ closeSent' = TRUE
  /\ UNCHANGED <<issued, handle, reported, waiting, outcome, dropped, seen, codeq,
                 mailVars, lines, tpc, tres, loopVars, evVars, edgeVars, netVars>>

\* The last reference to the PyProxyClient goes; its futures may live on.
DropClient ==
  /\ "drop" \in MayHappen
  /\ Free
  /\ dropped' = TRUE /\ handle' = FALSE
  /\ UNCHANGED <<issued, reported, waiting, outcome, closeSent, seen, codeq,
                 mailVars, lines, tpc, tres, loopVars, evVars, edgeVars, netVars>>

-----------------------------------------------------------------------------
(* The background thread (run_forever) *)

\* Mutant: the senders of the map outlive the thread.
SendersKept(res) ==
  /\ tpc' = "ended" /\ tres' = res
  /\ codeq' = <<>> /\ UNCHANGED sender
  /\ mainEvent' = "none" /\ outEvent' = FALSE

\* It returns: the map of senders and the receiving ends of the channels are
\* dropped, and with code_recv the code that is still queued.
Return(res) ==
  /\ tpc' = "ended" /\ tres' = res
  /\ codeq' = <<>>
  /\ sender' = [id \in Ids |-> IF sender[id] = "none" THEN "none" ELSE "gone"]
  /\ mainEvent' = "none" /\ outEvent' = FALSE

ThreadFinishes ==
  /\ tpc = "ended" /\ tpc' = "finished"
  /\ UNCHANGED <<pyVars, codeq, mailVars, lines, tres, loopVars, evVars,
                 edgeVars, netVars>>

\* connect_output_stream, and the registration of both streams.
ThreadConnects ==
  /\ tpc = "connect"
  /\ \/ tpc' = "top" /\ UNCHANGED <<tres, codeq, sender, evVars>>
     \/ Return("err")
  /\ mainEdge' = MainReady
  /\ outEdge' = (outArrived > outRead \/ outEof)
  /\ UNCHANGED <<pyVars, mail, lines, loopVars, netVars>>

\* The close channel has a message, or its sender is gone.
ThreadChecksClose ==
  /\ tpc = "top"
  /\ IF closeSent \/ dropped
     THEN Return("ok")
     ELSE tpc' = "head" /\ UNCHANGED <<tres, codeq, sender, evVars>>
  /\ UNCHANGED <<pyVars, mail, lines, loopVars, edgeVars, netVars>>

\* Responses read but not yet handled, and who may be given one.
Unhandled == handled + 1 .. Parsed

\* Senders once the queued code has been taken in.
InMap == {id \in Ids : sender[id] = "map"} \cup ElementsOf(codeq)

\* Mutant: a response settles the oldest pending future, whatever its id.
OldestFirst(id) ==
  IF \E i \in 1 .. Len(queued) : queued[i] = id /\ id \in InMap
  THEN {r \in {resps[i] : i \in Unhandled} :
          \A i \in 1 .. Len(queued) : queued[i] = id =>
            \A j \in 1 .. i - 1 : queued[j] \notin InMap}
  ELSE {}

\* The responses that settle the future id: those that carry its id.
SettledBy(id) ==
  IF id \in InMap THEN {r \in {resps[i] : i \in Unhandled} : r = id} ELSE {}

\* The interest the outbuffer asks for, the queued code included.
\* Mutant: the rest of a message that has been written in part is overlooked.
WantedForWhole ==
  IF FrameLen * Len(queued \o codeq) - wrote >= FrameLen THEN "RW" ELSE "RO"
Wanted == IF FrameLen * Len(queued \o codeq) > wrote THEN "RW" ELSE "RO"

\* Head of the loop: take in all queued code, hand responses to the futures
\* they name, and register the main stream RW or RO as its outbuffer asks.
\* The code channel ends once it is empty and its sender gone.
ThreadLoopHead ==
  /\ tpc = "head"
  /\ queued' = queued \o codeq
  /\ IF dropped
     THEN /\ Return("ok")
          /\ UNCHANGED <<mail, handled, interest, mainEdge>>
     ELSE /\ codeq' = <<>>
          /\ sender' = [id \in Ids |->
                          IF SettledBy(id) # {} THEN "gone"
                          ELSE IF id \in InMap THEN "map" ELSE sender[id]]
          /\ mail' = [id \in Ids |->
                        IF SettledBy(id) # {}
                        THEN Append(mail[id], CHOOSE r \in SettledBy(id) : TRUE)
                        ELSE mail[id]]
          /\ handled' = Parsed
          /\ interest' = Wanted
          /\ mainEdge' = (mainEdge \/ interest' # interest)
          /\ tpc' = "poll"
          /\ UNCHANGED <<tres, evVars>>
  /\ UNCHANGED <<pyVars, lines, wrote, readUnits, outRead, outEdge, netVars>>

\* Mutant: the poll has no timeout.
PollsForEvents ==
  /\ tpc = "poll"
  /\ mainEvent' = IF ~mainEdge THEN "none"
                  ELSE IF MainWrites THEN "writable"
                  ELSE IF MainReady THEN "readable" ELSE "none"
  /\ outEvent' = (outEdge /\ (outArrived > outRead \/ outEof))
  /\ mainEvent' # "none" \/ outEvent'
  /\ mainEdge' = FALSE /\ outEdge' = FALSE
  /\ tpc' = "batch"
  /\ UNCHANGED <<pyVars, codeq, mailVars, lines, tres, loopVars, netVars>>

\* Events, or the 100 ms timeout with none.
ThreadPolls ==
  /\ tpc = "poll"
  /\ mainEvent' = IF ~mainEdge THEN "none"
                  ELSE IF MainWrites THEN "writable"
                  ELSE IF MainReady THEN "readable" ELSE "none"
  /\ outEvent' = (outEdge /\ (outArrived > outRead \/ outEof))
  /\ mainEdge' = FALSE /\ outEdge' = FALSE
  /\ tpc' = IF mainEvent' = "none" /\ ~outEvent' THEN "top" ELSE "batch"
  /\ UNCHANGED <<pyVars, codeq, mailVars, lines, tres, loopVars, netVars>>

\* Main stream, first half: a writable event writes.  A write to a peer that
\* has closed may fail, which ends the thread.
ThreadWrites ==
  /\ tpc = "batch" /\ mainEvent = "writable"
  /\ \/ /\ \E n \in IF "partial" \in MayHappen THEN 1 .. OutUnits ELSE {OutUnits} :
             /\ wrote' = wrote + n
             /\ full' = (n < OutUnits)
        /\ tpc' = "read" /\ mainEvent' = "readable"
        /\ UNCHANGED <<tres, codeq, sender, outEvent>>
     \/ eof /\ Return("err") /\ UNCHANGED <<wrote, full>>
  /\ UNCHANGED <<pyVars, mail, lines, queued, interest, readUnits, handled,
                 outRead, edgeVars, resps, arrived, outArrived, eof, outEof>>

NextInBatch(others) == IF others THEN "batch" ELSE "top"

\* Main stream, second half: whatever the event was, read.  With nothing to
\* read the call fails with WouldBlock, and that error ends the thread, as
\* does the end of the stream.
ThreadReads ==
  /\ tpc \in {"batch", "read"} /\ mainEvent = "readable"
  /\ IF arrived > readUnits
     THEN /\ readUnits' = readUnits + OneRead(arrived - readUnits)
          /\ tpc' = NextInBatch(outEvent) /\ mainEvent' = "none"
          /\ UNCHANGED <<tres, codeq, sender, outEvent>>
     ELSE Return("err") /\ UNCHANGED readUnits
  /\ UNCHANGED <<pyVars, mail, lines, queued, wrote, interest, handled, outRead,
                 edgeVars, netVars>>

\* Output stream: read, and pass whole lines on.  A client that is gone ends
\* the thread at the first line, the end of the stream ends it with an error.
ThreadReadsOutput ==
  /\ tpc = "batch" /\ outEvent
  /\ LET units == outRead + OneRead(outArrived - outRead) IN
     IF outArrived = outRead
     THEN Return("err") /\ UNCHANGED <<outRead, lines>>
     ELSE /\ outRead' = units
          /\ IF dropped /\ units \div FrameLen > lines
             THEN Return("ok") /\ UNCHANGED lines
             ELSE /\ lines' = units \div FrameLen
                  /\ tpc' = NextInBatch(mainEvent # "none")
                  /\ outEvent' = FALSE
                  /\ UNCHANGED <<tres, codeq, sender, mainEvent>>
  /\ UNCHANGED <<pyVars, mail, queued, wrote, interest, readUnits, handled,
                 edgeVars, netVars>>

-----------------------------------------------------------------------------
(* The server and the network, by what protocol.rst lets them do *)

Received(id) ==
  \E i \in 1 .. Len(queued) : queued[i] = id /\ wrote >= FrameLen * i

\* Responses may come in any order, one to a request.
ServerResponds(id) ==
  /\ Received(id) /\ ~eof
  /\ id \notin ElementsOf(resps)
  /\ resps' = Append(resps, id)
  /\ UNCHANGED <<pyVars, codeq, mailVars, lines, tpc, tres, loopVars, evVars,
                 edgeVars, full, arrived, outArrived, eof, outEof>>

ResponseArrives ==
  /\ \E n \in arrived + 1 .. FrameLen * Len(resps) : arrived' = n
  /\ mainEdge' = (tpc # "connect")
  /\ UNCHANGED <<pyVars, codeq, mailVars, lines, tpc, tres, loopVars, evVars,
                 outEdge, full, resps, outArrived, eof, outEof>>

OutputArrives ==
  /\ outArrived < FrameLen * MaxLines /\ ~outEof /\ tpc # "connect"
  /\ \E n \in {1, FrameLen} : outArrived' = outArrived + n
  /\ outArrived' <= FrameLen * MaxLines
  /\ outEdge' = TRUE
  /\ UNCHANGED <<pyVars, codeq, mailVars, lines, tpc, tres, loopVars, evVars,
                 mainEdge, full, resps, arrived, eof, outEof>>

\* The server's end closes, or the connection drops.
ServerCloses ==
  /\ "close" \in MayHappen
  /\ \/ ~eof /\ eof' = TRUE /\ mainEdge' = (tpc # "connect")
        /\ UNCHANGED <<outEof, outEdge>>
     \/ ~outEof /\ tpc # "connect" /\ outEof' = TRUE /\ outEdge' = TRUE
        /\ UNCHANGED <<eof, mainEdge>>
  /\ UNCHANGED <<pyVars, codeq, mailVars, lines, tpc, tres, loopVars, evVars,
                 full, resps, arrived, outArrived>>

SocketDrains ==
  /\ full /\ full' = FALSE
  /\ mainEdge' = TRUE
  /\ UNCHANGED <<pyVars, codeq, mailVars, lines, tpc, tres, loopVars, evVars,
                 outEdge, resps, arrived, outArrived, eof, outEof>>

-----------------------------------------------------------------------------
Init ==
  /\ issued = {} /\ handle = TRUE /\ reported = 0 /\ waiting = {}
  /\ outcome = [id \in Ids |-> "none"]
  /\ closeSent = FALSE /\ dropped = FALSE /\ seen = 0
  /\ codeq = <<>> /\ lines = 0
  /\ sender = [id \in Ids |-> "none"]
  /\ mail = [id \in Ids |-> <<>>]
  /\ tpc = "connect" /\ tres = "none"
  /\ queued = <<>> /\ wrote = 0 /\ interest = "RO"
  /\ mainEdge = FALSE /\ outEdge = FALSE
  /\ mainEvent = "none" /\ outEvent = FALSE
  /\ readUnits = 0 /\ handled = 0 /\ outRead = 0
  /\ full = FALSE /\ resps = <<>> /\ arrived = 0 /\ outArrived = 0
  /\ eof = FALSE /\ outEof = FALSE

PythonStep ==
  \/ \E id \in Ids : Eval(id) \/ Wait(id) \/ WaitReturns(id) \/ WaitTimesOut(id)
  \/ CheckThreadFails \/ NextOutput \/ Disconnect \/ DropClient

ThreadStep ==
  \/ ThreadConnects \/ ThreadChecksClose \/ ThreadLoopHead \/ ThreadPolls
  \/ ThreadWrites \/ ThreadReads \/ ThreadReadsOutput \/ ThreadFinishes

NetworkStep ==
  \/ \E id \in Ids : ServerResponds(id)
  \/ ResponseArrives \/ OutputArrives \/ ServerCloses \/ SocketDrains

Next == PythonStep \/ ThreadStep \/ NetworkStep

Spec == Init /\ [][Next]_vars

\* The thread is scheduled, its poll times out, a socket drains, and a wait
\* that can return does.  Nothing is assumed of the server, nor of what the
\* Python program calls.
FairSpec ==
  /\ Spec
  /\ WF_vars(ThreadStep)
  /\ WF_vars(SocketDrains)
  /\ \A id \in Ids : WF_vars(WaitReturns(id))

-----------------------------------------------------------------------------
(* Properties *)

Types ==
  /\ issued \subseteq Ids /\ handle \in BOOLEAN /\ reported \in Nat
  /\ waiting \subseteq issued /\ outcome \in [Ids -> Outcomes]
  /\ closeSent \in BOOLEAN /\ dropped \in BOOLEAN
  /\ seen \in Nat /\ lines \in Nat
  /\ codeq \in Seq(Ids)
  /\ sender \in [Ids -> {"none", "queue", "map", "gone"}]
  /\ mail \in [Ids -> Seq(Ids)]
  /\ tpc \in {"connect", "top", "head", "poll", "batch", "read", "ended", "finished"}
  /\ tres \in {"none", "ok", "err"}
  /\ queued \in Seq(Ids) /\ wrote \in Nat /\ interest \in {"RO", "RW"}
  /\ mainEdge \in BOOLEAN /\ outEdge \in BOOLEAN
  /\ mainEvent \in {"none", "readable", "writable"} /\ outEvent \in BOOLEAN
  /\ readUnits \in Nat /\ handled \in Nat /\ outRead \in Nat
  /\ full \in BOOLEAN /\ resps \in Seq(Ids)
  /\ arrived \in Nat /\ outArrived \in Nat
  /\ eof \in BOOLEAN /\ outEof \in BOOLEAN

\* The thread never takes more out of a stream than has arrived on it.
Bounds ==
  /\ handled <= Parsed
  /\ readUnits <= arrived /\ arrived <= FrameLen * Len(resps)
  /\ outRead <= outArrived

\* Type invariant: every variable stays in the set its code type allows, and
\* no count of a reader is ahead of what it counts (mainstream.rs:79-117).
TypeOK == Types /\ Bounds

\* A future is only ever given the result of its own code, and one result at
\* most, whatever order the server answers in (mod.rs:221-233; protocol.rst
\* makes no promise on the order).
OwnResultOnce ==
  \A id \in Ids :
    /\ mail[id] \in {<<>>, <<id>>}
    /\ outcome[id] \in Ids => outcome[id] = id /\ mail[id] = <<>>

\* A future whose sender is alive can still be settled: its code is queued, or
\* its request is written or to be written and no response to it has been
\* passed over; and the end of the thread leaves no sender alive, so nobody
\* waits for a thread that is gone (mod.rs:206-233, future.rs:21-25).
NoFutureForgotten ==
  \A id \in issued :
    /\ sender[id] = "queue" => ~Ended /\ id \in ElementsOf(codeq)
    /\ sender[id] = "map" => /\ ~Ended /\ id \in ElementsOf(queued)
                             /\ \A i \in 1 .. handled : resps[i] # id
    /\ sender[id] = "gone" => Ended \/ mail[id] # <<>> \/ outcome[id] # "none"

\* The error that ended the thread is raised to the caller at most once, and
\* never one of a thread that is still running or was told to stop
\* (mod.rs:92-119).
ErrorRaisedOnce ==
  reported <= 1 /\ (reported = 1 => tres = "err" /\ tpc = "finished" /\ ~handle)

\* disconnect, or dropping the client, ends the thread, at the latest with
\* the timeout of its poll (mod.rs:199-204, 256-259).
CloseEndsThread == closeSent \/ dropped ~> Ended

\* A wait on a future of an ended thread returns (future.rs:21-25).
WaitersReleased ==
  \A id \in Ids : id \in waiting /\ Ended ~> id \notin waiting

\* "Calls to eval will never block, it'll place the arguments into a queue for
\* the background thread to pick up and send to the server."
\* (walkthrough.rst:108-109): code the thread picks up is written, across
\* partial writes, unless the thread ends.  It is so when the main stream is
\* at rest or waits for room in the socket, and not in the turn after a write
\* that has emptied the outbuffer (mod.rs:205-219, 236-254).
RequestFromRestWritten ==
  \A id \in Ids :
    tpc = "head" /\ id \in ElementsOf(codeq) /\ (interest = "RO" \/ full)
      ~> Ended \/ Received(id)

-----------------------------------------------------------------------------
(* What the documentation says, and the code does not do *)

\* "The client may fire many requests, before waiting for responses."
\* (intro-abstractions.rst:72): sending does not end the session, the thread
\* ends with an error only when a stream has been closed on it.
FiringRequestsIsSafe ==
  tres = "err" => eof \/ outEof \/ queued = <<>>
=============================================================================
