---------------------------- MODULE OutputProofs ----------------------------
(***************************************************************************)
(* Theorems about OutputRouting, for any sessions, pipes, sizes and choice *)
(* of what may happen: types, that lines are queued once, whole and in     *)
(* their order, that none is held back while a session is current, that    *)
(* the session current is the one printed, that lines after the last       *)
(* marker of a read reach theirs, and that the stream of a live client is  *)
(* not given up.                                                           *)
(*                                                                         *)
(* There are three inductive invariants.  That of the pipes says where the *)
(* buffer of a pipe begins: at a newline, and past every line that was     *)
(* queued.  That of the streams says why one may have been deregistered,   *)
(* and that an event still to be handled finds bytes to read or room to    *)
(* write.                                                                  *)
(* That of what is current says that looking through the buffer again and  *)
(* again finds what looking through all of the output would.               *)
(***************************************************************************)
EXTENDS OutputRouting, PipeFrameProofs

-----------------------------------------------------------------------------
(* The inductive invariants *)

\* The buffer of each pipe is in order, and holds no line but the newline it
\* begins with while a session is current.
FramesInv ==
  \A p \in Pipes :
    /\ BufferInv(frame[p])
    /\ frame[p].current # NoSession => Lines(frame[p]) \subseteq {frame[p].from + 1}

\* The lines of a batch have been read, and the buffer of their pipe begins
\* after them, but for the newline of the last one.
Passed(b) ==
  /\ b.lines \subseteq 1 .. frame[b.pipe].read /\ b.lines # {}
  /\ \A j \in b.lines : j <= frame[b.pipe].from + 1

BatchesPassed ==
  \A s \in Sessions : \A i \in 1 .. Len(queue[s]) : Passed(queue[s][i])

PipeInv ==
  /\ frame \in [Pipes -> PipeFrameType] /\ queue \in [Sessions -> Seq(Batches)]
  /\ FramesInv /\ BatchesPassed /\ LineQueuedOnce

\* Types of what streams are, apart from their outbuffer.
StreamTypes ==
  /\ place \in [Sessions -> {"client", "backlog", "open", "removed"}]
  /\ gone \in [Sessions -> BOOLEAN]
  /\ hello \in [Sessions -> Hellos] /\ seen \in [Sessions -> Hellos]
  /\ epoll \in [Sessions -> {"none", "RO", "RW"}]
  /\ interest \in [Sessions -> {"RO", "RW"}]
  /\ named \in [Sessions -> BOOLEAN]
  /\ full \in [Sessions -> BOOLEAN]

\* No more is written than was queued.
WroteInv ==
  /\ wrote \in [Sessions -> Nat]
  /\ \A s \in Sessions : wrote[s] <= 2 * Len(queue[s])

LoopTypes ==
  /\ mpc \in {"top", "poll", "batch"}
  /\ backlog \in Seq(Sessions)
  /\ ready \subseteq Tokens /\ readable \subseteq Tokens /\ writable \subseteq StreamTks
  /\ watched \subseteq Pipes
  /\ toRemove \subseteq StreamTks \cup PipeTks

\* The listener's event is handled while there is a connection to accept.
ListenerInv == ListenerTk \in readable => backlog # <<>>

\* A stream that was deregistered, or is to be removed, had its reason.
Hopeless(s) == gone[s] \/ hello[s] = "bad"

RemovedInv ==
  \A s \in Sessions :
    /\ named[s] /\ epoll[s] = "none" => Hopeless(s)
    /\ StreamTk(s) \in toRemove => Hopeless(s)

\* Master's reads do not run ahead of the hello; an event that is still to be
\* handled has something to read, or room to write.
EventsInv ==
  \A s \in Sessions :
    /\ seen[s] = "part" => hello[s] # "none"
    /\ seen[s] \in {"whole", "bad"} => hello[s] = seen[s]
    /\ StreamTk(s) \in readable => hello[s] # seen[s] \/ gone[s]
    /\ StreamTk(s) \in writable => ~full[s] \/ gone[s]

StreamInv ==
  StreamTypes /\ WroteInv /\ LoopTypes /\ ListenerInv /\ EventsInv /\ RemovedInv

-----------------------------------------------------------------------------
(* Pipes *)

\* What a read of a pipe leaves of its buffer.
LEMMA KeptFacts ==
  ASSUME NEW f \in PipeFrameType, BufferInv(f)
  PROVE  /\ Kept(f) \in PipeFrameType /\ BufferInv(Kept(f))
         /\ Kept(f).sent = f.sent /\ Kept(f).closed = f.closed
         /\ Kept(f).read = f.read /\ f.from <= Kept(f).from
         /\ Kept(f).current # NoSession =>
              Lines(Kept(f)) \subseteq {Kept(f).from + 1}
         /\ Parse(f).current # NoSession =>
              \A j \in Lines(f) : j <= Kept(f).from + 1
<1> DEFINE g == Parse(f)
<1>1. /\ g \in PipeFrameType /\ BufferInv(g)
      /\ g.sent = f.sent /\ g.closed = f.closed
      /\ g.from = f.from /\ g.read = f.read
  BY ParseFacts
<1>2. Lines(g) = Lines(f)
  BY <1>1 DEF Lines
<1>3. Kept(f) = IF g.current = NoSession THEN g ELSE Clear(g)
  BY DEF Kept
<1> HIDE DEF g
<1>4. CASE g.current = NoSession
  BY <1>1, <1>3, <1>4 DEF PipeFrameType, g
<1>5. CASE g.current # NoSession
  <2>1. Kept(f) = Clear(g)
    BY <1>3, <1>5
  <2> QED BY <1>1, <1>2, <2>1, ClearFacts
<1> QED BY <1>4, <1>5

\* The frames and the outbuffers are left alone but by the pipes.
LEMMA OtherPipes ==
  ASSUME Next
  PROVE  \/ \E p \in Pipes : \/ \E u \in Units : Prints(p, u)
                             \/ WorkerEnds(p) \/ MasterPipe(p) \/ MasterPipeFails(p)
         \/ UNCHANGED <<frame, queue>>
<1>1. ASSUME NEW s \in Sessions, StreamStep(s) PROVE UNCHANGED <<frame, queue>>
  BY <1>1 DEF StreamStep, StreamConnects, HelloArrives, StreamCloses, SocketDrains
<1>2. ASSUME \/ MasterLoopHead \/ MasterPoll \/ MasterAcceptStream \/ MasterAcceptFails
             \/ \E s \in Sessions : MasterStream(s)
      PROVE  UNCHANGED <<frame, queue>>
  BY <1>2 DEF MasterLoopHead, MasterPoll, MasterAcceptStream, MasterAcceptFails,
              MasterStream, streamVars
<1> QED BY <1>1, <1>2 DEF Next, PipeStep, MasterStep

\* Batches stay passed, while the buffers of the pipes only move on.
LEMMA QueueStays ==
  ASSUME PipeInv, queue' = queue, frame' \in [Pipes -> PipeFrameType],
         \A p \in Pipes : /\ frame[p].from <= frame'[p].from
                          /\ frame[p].read <= frame'[p].read
  PROVE  BatchesPassed' /\ LineQueuedOnce'
<1>1. ASSUME NEW s \in Sessions, NEW i \in 1 .. Len(queue[s])
      PROVE  Passed(queue[s][i])'
  <2> DEFINE b == queue[s][i]
  <2>1. b \in Batches /\ Passed(b)
    BY DEF PipeInv, BatchesPassed
  <2>2. b' = b
    OBVIOUS
  <2> HIDE DEF b
  <2>3. b.pipe \in Pipes /\ b.lines \in SUBSET Nat
    BY <2>1 DEF Batches
  <2>4. /\ frame[b.pipe].from \in Nat /\ frame[b.pipe].read \in Nat
        /\ frame'[b.pipe].from \in Nat /\ frame'[b.pipe].read \in Nat
        /\ frame[b.pipe].from <= frame'[b.pipe].from
        /\ frame[b.pipe].read <= frame'[b.pipe].read
    BY <2>3 DEF PipeInv, PipeFrameType
  <2>5. Passed(b)'
    BY <2>1, <2>2, <2>3, <2>4 DEF Passed
  <2> QED BY <2>5 DEF b
<1>2. BatchesPassed'
  BY <1>1 DEF BatchesPassed
<1>3. LineQueuedOnce'
  BY DEF PipeInv, LineQueuedOnce
<1> QED BY <1>2, <1>3

\* The last line of a batch is one of its lines.
LEMMA LastOfBatch ==
  ASSUME PipeInv, NEW s \in Sessions, NEW i \in 1 .. Len(queue[s])
  PROVE  /\ queue[s][i] \in Batches
         /\ Max(queue[s][i].lines) \in Nat
         /\ Max(queue[s][i].lines) <= frame[queue[s][i].pipe].from + 1
<1> DEFINE b == queue[s][i]
<1>1. b \in Batches /\ Passed(b)
  BY DEF PipeInv, BatchesPassed
<1> HIDE DEF b
<1>2. b.pipe \in Pipes /\ b.lines \in SUBSET Nat
  BY <1>1 DEF Batches
<1>3. frame[b.pipe].read \in Nat
  BY <1>2 DEF PipeInv, PipeFrameType
<1>4. Max(b.lines) \in b.lines
  BY <1>1, <1>3, LastPosition DEF Passed
<1>5. Max(b.lines) \in Nat /\ Max(b.lines) <= frame[b.pipe].from + 1
  BY <1>1, <1>2, <1>4 DEF Passed
<1> QED BY <1>1, <1>5 DEF b

\* A batch of the lines of one read goes to the end of an outbuffer.
LEMMA QueueGrows ==
  ASSUME PipeInv, NEW p \in Pipes, NEW t \in Sessions, NEW b \in Batches,
         queue' = [queue EXCEPT ![t] = Append(queue[t], b)],
         frame' \in [Pipes -> PipeFrameType],
         \A q \in Pipes : /\ frame[q].from <= frame'[q].from
                          /\ frame[q].read <= frame'[q].read,
         b.pipe = p, b.from = frame[p].from, b.lines # {},
         b.lines \subseteq 1 .. frame'[p].read,
         \A j \in b.lines : j <= frame'[p].from + 1
  PROVE  /\ queue' \in [Sessions -> Seq(Batches)]
         /\ BatchesPassed' /\ LineQueuedOnce'
<1>1. queue \in [Sessions -> Seq(Batches)] /\ Len(queue[t]) \in Nat
  BY DEF PipeInv
<1>2. queue' \in [Sessions -> Seq(Batches)]
  BY <1>1
<1>3. ASSUME NEW s \in Sessions, NEW i \in 1 .. Len(queue'[s])
      PROVE  \/ i \in 1 .. Len(queue[s]) /\ queue'[s][i] = queue[s][i]
             \/ s = t /\ i = Len(queue[t]) + 1 /\ queue'[s][i] = b
  <2>1. CASE s # t
    BY <1>1, <2>1
  <2>2. CASE s = t
    <3>1. queue'[s] = Append(queue[t], b)
      BY <1>1, <2>2
    <3>2. /\ Len(queue'[s]) = Len(queue[t]) + 1
          /\ queue'[s][Len(queue[t]) + 1] = b
          /\ \A n \in 1 .. Len(queue[t]) : queue'[s][n] = queue[t][n]
      BY <1>1, <3>1
    <3>3. i \in 1 .. Len(queue[t]) \/ i = Len(queue[t]) + 1
      BY <1>1, <3>2
    <3> QED BY <2>2, <3>2, <3>3
  <2> QED BY <2>1, <2>2
<1>4. ASSUME NEW s \in Sessions, NEW i \in 1 .. Len(queue[s])
      PROVE  Passed(queue[s][i]) /\ queue[s][i] \in Batches
  BY DEF PipeInv, BatchesPassed
<1>5. ASSUME NEW c \in Batches, Passed(c)
      PROVE  /\ c.lines \subseteq 1 .. frame'[c.pipe].read /\ c.lines # {}
             /\ \A j \in c.lines : j <= frame'[c.pipe].from + 1
  <2>1. c.pipe \in Pipes /\ c.lines \in SUBSET Nat
    BY DEF Batches
  <2>2. /\ frame[c.pipe].from \in Nat /\ frame[c.pipe].read \in Nat
        /\ frame'[c.pipe].from \in Nat /\ frame'[c.pipe].read \in Nat
        /\ frame[c.pipe].from <= frame'[c.pipe].from
        /\ frame[c.pipe].read <= frame'[c.pipe].read
    BY <2>1 DEF PipeInv, PipeFrameType
  <2> QED BY <1>5, <2>1, <2>2 DEF Passed
<1>6. BatchesPassed'
  <2>1. ASSUME NEW s \in Sessions, NEW i \in 1 .. Len(queue'[s])
        PROVE  LET c == queue'[s][i] IN
               /\ c.lines \subseteq 1 .. frame'[c.pipe].read /\ c.lines # {}
               /\ \A j \in c.lines : j <= frame'[c.pipe].from + 1
    BY <1>3, <1>4, <1>5
  <2> QED BY <2>1 DEF BatchesPassed, Passed
<1>7. ASSUME NEW s \in Sessions, NEW i \in 1 .. Len(queue[s]), queue[s][i].pipe = p
      PROVE  Max(queue[s][i].lines) <= b.from + 1
  BY <1>7, LastOfBatch
<1>8. LineQueuedOnce'
  <2> SUFFICES ASSUME NEW r \in Sessions, NEW s \in Sessions,
                      NEW i \in 1 .. Len(queue'[r]), NEW j \in 1 .. Len(queue'[s]),
                      queue'[r][i].pipe = queue'[s][j].pipe
               PROVE  /\ r # s \/ i # j => Apart(queue'[r][i], queue'[s][j])
                      /\ r = s /\ i < j =>
                           Max(queue'[r][i].lines) <= queue'[s][j].from + 1
    BY DEF LineQueuedOnce, Apart
  <2>1. CASE /\ i \in 1 .. Len(queue[r]) /\ queue'[r][i] = queue[r][i]
             /\ j \in 1 .. Len(queue[s]) /\ queue'[s][j] = queue[s][j]
    BY <2>1 DEF PipeInv, LineQueuedOnce
  <2>2. CASE /\ i \in 1 .. Len(queue[r]) /\ queue'[r][i] = queue[r][i]
             /\ s = t /\ j = Len(queue[t]) + 1 /\ queue'[s][j] = b
    <3>1. Max(queue'[r][i].lines) <= queue'[s][j].from + 1
      BY <1>7, <2>2
    <3> QED BY <3>1 DEF Apart
  <2>3. CASE /\ r = t /\ i = Len(queue[t]) + 1 /\ queue'[r][i] = b
             /\ j \in 1 .. Len(queue[s]) /\ queue'[s][j] = queue[s][j]
    <3>1. Max(queue'[s][j].lines) <= queue'[r][i].from + 1
      BY <1>7, <2>3
    <3>2. ~(r = s /\ i < j)
      BY <1>1, <2>3
    <3> QED BY <3>1, <3>2 DEF Apart
  <2>4. CASE /\ r = t /\ i = Len(queue[t]) + 1
             /\ s = t /\ j = Len(queue[t]) + 1
    <3>1. r = s /\ i = j /\ ~(i < j)
      BY <1>1, <2>4
    <3> QED BY <3>1
  <2> QED BY <1>3, <2>1, <2>2, <2>3, <2>4
<1> QED BY <1>2, <1>6, <1>8

\* What MasterPipe does: the buffer of p is kept as the read leaves it, and
\* the lines that were saved, if any, go to the session that is current.
LEMMA PipeReads ==
  ASSUME PipeInv, NEW p \in Pipes, MasterPipe(p)
  PROVE  LET f == Fill(frame[p])  s == Parse(f).current IN
         /\ frame' = [frame EXCEPT ![p] = Kept(f)]
         /\ \/ queue' = queue
            \/ /\ s \in Sessions /\ Saved(f) # {}
               /\ queue' = [queue EXCEPT ![s] =
                    Append(queue[s],
                           [pipe |-> p, from |-> f.from, lines |-> Saved(f)])]
<1> DEFINE f == Fill(frame[p])
           s == Parse(f).current
<1>1. frame' = [frame EXCEPT ![p] = Kept(f)] /\ queue' = Queued(p, f)
  BY DEF MasterPipe
<1>2. frame[p] \in PipeFrameType /\ BufferInv(frame[p])
  BY DEF PipeInv, FramesInv
<1>3. f \in PipeFrameType /\ BufferInv(f)
  BY <1>2, FillFacts
<1> HIDE DEF f
<1>4. s \in Sessions \cup {NoSession}
  BY <1>3, ParseFacts DEF PipeFrameType
<1>5. \/ queue' = queue
      \/ /\ s # NoSession /\ Saved(f) # {}
         /\ queue' = [queue EXCEPT ![s] =
              Append(@, [pipe |-> p, from |-> f.from, lines |-> Saved(f)])]
  BY <1>1 DEF Queued
<1>6. \/ queue' = queue
      \/ /\ s \in Sessions /\ Saved(f) # {}
         /\ queue' = [queue EXCEPT ![s] =
              Append(queue[s], [pipe |-> p, from |-> f.from, lines |-> Saved(f)])]
  BY <1>4, <1>5
<1> QED BY <1>1, <1>6 DEF f

\* Every step keeps the invariant of the pipes.
LEMMA NextPipes ==
  ASSUME PipeInv, [Next]_vars
  PROVE  PipeInv'
<1>1. /\ frame \in [Pipes -> PipeFrameType] /\ queue \in [Sessions -> Seq(Batches)]
      /\ \A p \in Pipes : /\ frame[p] \in PipeFrameType /\ BufferInv(frame[p])
                          /\ frame[p].from \in Nat /\ frame[p].read \in Nat
  BY DEF PipeInv, FramesInv, PipeFrameType
<1>2. CASE UNCHANGED <<frame, queue>>
  BY <1>2 DEF PipeInv, FramesInv, BatchesPassed, Passed, LineQueuedOnce
<1>3. ASSUME NEW p \in Pipes, NEW g \in PipeFrameType, BufferInv(g),
             frame' = [frame EXCEPT ![p] = g], queue' = queue,
             g.from = frame[p].from, frame[p].read <= g.read,
             \/ g.current = NoSession
             \/ /\ g.current = frame[p].current
                /\ Lines(g) = Lines(frame[p])
      PROVE  PipeInv'
  <2>1. frame' \in [Pipes -> PipeFrameType] /\ frame'[p] = g
        /\ \A q \in Pipes \ {p} : frame'[q] = frame[q]
    BY <1>1, <1>3
  <2>2. FramesInv'
    <3>1. ASSUME NEW q \in Pipes
          PROVE  /\ BufferInv(frame'[q])
                 /\ frame'[q].current # NoSession =>
                      Lines(frame'[q]) \subseteq {frame'[q].from + 1}
      <4>1. CASE q = p
        BY <1>3, <2>1, <4>1 DEF PipeInv, FramesInv
      <4>2. CASE q # p
        BY <2>1, <4>2 DEF PipeInv, FramesInv
      <4> QED BY <4>1, <4>2
    <3> QED BY <3>1 DEF FramesInv
  <2>3. \A q \in Pipes : /\ frame[q].from <= frame'[q].from
                         /\ frame[q].read <= frame'[q].read
    BY <1>1, <1>3, <2>1
  <2>4. BatchesPassed' /\ LineQueuedOnce'
    BY <1>3, <2>1, <2>3, QueueStays
  <2> QED BY <1>1, <1>3, <2>1, <2>2, <2>4 DEF PipeInv
<1>4. ASSUME NEW p \in Pipes, NEW u \in Units, Prints(p, u) PROVE PipeInv'
  <2> DEFINE g == [frame[p] EXCEPT !.sent = Append(frame[p].sent, u)]
  <2>1. /\ g \in PipeFrameType /\ BufferInv(g)
        /\ g.from = frame[p].from /\ g.read = frame[p].read
        /\ g.current = frame[p].current /\ Lines(g) = Lines(frame[p])
    BY <1>1, PrintFacts
  <2>2. frame' = [frame EXCEPT ![p] = g] /\ queue' = queue
    BY <1>4 DEF Prints, streamVars
  <2> HIDE DEF g
  <2>3. frame[p].read <= g.read
    BY <1>1, <2>1
  <2> QED BY <1>3, <2>1, <2>2, <2>3
<1>5. ASSUME NEW p \in Pipes, WorkerEnds(p) PROVE PipeInv'
  <2> DEFINE g == [frame[p] EXCEPT !.closed = TRUE]
  <2>1. frame' = [frame EXCEPT ![p] = g] /\ queue' = queue
    BY <1>5 DEF WorkerEnds, streamVars
  <2>2. g \in PipeFrameType
    BY <1>1 DEF PipeFrameType
  <2>3. /\ g.sent = frame[p].sent /\ g.from = frame[p].from
        /\ g.read = frame[p].read /\ g.current = frame[p].current
    BY <1>1 DEF PipeFrameType
  <2> HIDE DEF g
  <2>4. BufferInv(g) /\ Lines(g) = Lines(frame[p])
    BY <1>1, <2>3 DEF BufferInv, Lines
  <2>5. frame[p].read <= g.read
    BY <1>1, <2>3
  <2> QED BY <1>3, <2>1, <2>2, <2>3, <2>4, <2>5
<1>6. ASSUME NEW p \in Pipes, MasterPipeFails(p) PROVE PipeInv'
  <2> DEFINE h == Fill(frame[p])
             g == [h EXCEPT !.current = NoSession]
  <2>1. frame' = [frame EXCEPT ![p] = g] /\ queue' = queue
    BY <1>6 DEF MasterPipeFails, streamVars
  <2>2. /\ h \in PipeFrameType /\ BufferInv(h)
        /\ h.from = frame[p].from /\ frame[p].read <= h.read
    BY <1>1, FillFacts
  <2> HIDE DEF h
  <2>3. g \in PipeFrameType
    BY <2>2 DEF PipeFrameType
  <2>4. /\ g.sent = h.sent /\ g.from = h.from
        /\ g.read = h.read /\ g.current = NoSession
    BY <2>2 DEF PipeFrameType
  <2> HIDE DEF g
  <2>5. BufferInv(g)
    BY <2>2, <2>4 DEF BufferInv
  <2>6. /\ g.from = frame[p].from /\ frame[p].read <= g.read
        /\ g.current = NoSession
    BY <2>2, <2>4
  <2> QED BY <1>3, <2>1, <2>3, <2>5, <2>6
<1>7. ASSUME NEW p \in Pipes, MasterPipe(p) PROVE PipeInv'
  <2> DEFINE f == Fill(frame[p])
             s == Parse(f).current
             b == [pipe |-> p, from |-> f.from, lines |-> Saved(f)]
             k == Kept(f)
  <2>1. /\ frame' = [frame EXCEPT ![p] = k]
        /\ \/ queue' = queue
           \/ /\ s \in Sessions /\ Saved(f) # {}
              /\ queue' = [queue EXCEPT ![s] = Append(queue[s], b)]
    BY <1>7, PipeReads
  <2>2. /\ f \in PipeFrameType /\ BufferInv(f)
        /\ f.from = frame[p].from /\ frame[p].read <= f.read
    BY <1>1, FillFacts
  <2>3. f.from \in Nat /\ f.read \in Nat
    BY <2>2 DEF PipeFrameType
  <2>4. Lines(f) \subseteq 1 .. f.read /\ Saved(f) \subseteq Lines(f)
    BY <2>2, LinesInBuffer
  <2> HIDE DEF f
  <2>5. /\ k \in PipeFrameType /\ BufferInv(k)
        /\ k.read = f.read /\ f.from <= k.from
        /\ k.current # NoSession => Lines(k) \subseteq {k.from + 1}
        /\ s # NoSession => \A j \in Lines(f) : j <= k.from + 1
    BY <2>2, KeptFacts
  <2> HIDE DEF k
  <2>6. /\ frame' \in [Pipes -> PipeFrameType] /\ frame'[p] = k
        /\ \A q \in Pipes \ {p} : frame'[q] = frame[q]
    BY <1>1, <2>1, <2>5
  <2>7. FramesInv'
    <3>1. ASSUME NEW q \in Pipes
          PROVE  /\ BufferInv(frame'[q])
                 /\ frame'[q].current # NoSession =>
                      Lines(frame'[q]) \subseteq {frame'[q].from + 1}
      <4>1. CASE q = p
        BY <2>5, <2>6, <4>1
      <4>2. CASE q # p
        BY <2>6, <4>2 DEF PipeInv, FramesInv
      <4> QED BY <4>1, <4>2
    <3> QED BY <3>1 DEF FramesInv
  <2>8. \A q \in Pipes : /\ frame[q].from <= frame'[q].from
                         /\ frame[q].read <= frame'[q].read
    BY <1>1, <2>2, <2>5, <2>6
  <2>9. CASE queue' = queue
    <3>1. BatchesPassed' /\ LineQueuedOnce'
      BY <2>6, <2>8, <2>9, QueueStays
    <3> QED BY <1>1, <2>6, <2>7, <2>9, <3>1 DEF PipeInv
  <2>10. CASE /\ s \in Sessions /\ Saved(f) # {}
              /\ queue' = [queue EXCEPT ![s] = Append(queue[s], b)]
    <3>1. /\ b \in Batches /\ b.pipe = p /\ b.from = frame[p].from
          /\ b.lines = Saved(f)
      BY <2>2, <2>3, <2>4 DEF Batches
    <3>2. b.lines # {} /\ b.lines \subseteq 1 .. frame'[p].read
      BY <2>4, <2>5, <2>6, <2>10, <3>1
    <3>3. s # NoSession
      BY <2>10, PipeFrameAssumption
    <3>4. \A j \in b.lines : j <= frame'[p].from + 1
      BY <2>4, <2>5, <2>6, <3>1, <3>3
    <3> HIDE DEF b, s
    <3>5. /\ queue' \in [Sessions -> Seq(Batches)]
          /\ BatchesPassed' /\ LineQueuedOnce'
      BY <2>6, <2>8, <2>10, <3>1, <3>2, <3>4, QueueGrows
    <3> QED BY <2>6, <2>7, <3>5 DEF PipeInv
  <2> QED BY <2>1, <2>9, <2>10
<1>8. CASE UNCHANGED vars
  BY <1>2, <1>8 DEF vars, streamVars
<1> QED BY <1>2, <1>4, <1>5, <1>6, <1>7, <1>8, OtherPipes

\* The inductive invariant of the pipes.
LEMMA PipeInvariance == Spec => []PipeInv
<1>1. Init => PipeInv
  <2> SUFFICES ASSUME Init PROVE PipeInv
    OBVIOUS
  <2>1. /\ NewFrame \in PipeFrameType /\ BufferInv(NewFrame)
        /\ NewFrame.current = NoSession
    BY DEF NewFrame, PipeFrameType, BufferInv
  <2>2. frame = [p \in Pipes |-> NewFrame] /\ queue = [s \in Sessions |-> <<>>]
    BY DEF Init
  <2>3. /\ frame \in [Pipes -> PipeFrameType] /\ queue \in [Sessions -> Seq(Batches)]
        /\ \A s \in Sessions : Len(queue[s]) = 0
    BY <2>1, <2>2
  <2>4. FramesInv
    BY <2>1, <2>2 DEF FramesInv
  <2>5. BatchesPassed /\ LineQueuedOnce
    BY <2>3 DEF BatchesPassed, LineQueuedOnce
  <2> QED BY <2>3, <2>4, <2>5 DEF PipeInv
<1> QED BY <1>1, NextPipes, PTL DEF Spec

\* No line is queued twice, and a session's lines of one pipe are queued in
\* their order (pipeframe.rs:36-94, mod.rs:384-391).
THEOREM LinesQueuedOnce == Spec => []LineQueuedOnce
<1>1. PipeInv => LineQueuedOnce
  BY DEF PipeInv
<1> QED BY <1>1, PipeInvariance, PTL

\* While a session is current, no complete line stays behind in the buffer
\* (pipeframe.rs:89-94, mod.rs:384-391).
THEOREM LinesPassedOn == Spec => []NoLineHeldBack
<1>1. PipeInv => NoLineHeldBack
  BY DEF PipeInv, FramesInv, NoLineHeldBack
<1> QED BY <1>1, PipeInvariance, PTL

\* Frames with the same output have the same lines.
LEMMA SameBody ==
  ASSUME NEW f \in PipeFrameType, NEW g \in PipeFrameType, f.sent = g.sent,
         NEW from \in Nat, NEW j \in Nat, j > from
  PROVE  Body(f, from, j) = Body(g, from, j)
<1>1. PICK k \in from + 1 .. j :
        /\ Begins(f, from, j, k)
        /\ Body(f, from, j) = SubSeq(f.sent, k, j - 1)
  BY LineBegins
<1>2. PICK l \in from + 1 .. j :
        /\ Body(g, from, j) = SubSeq(g.sent, l, j - 1)
        /\ \A i : Begins(g, from, j, i) => i = l
  BY LineBegins
<1>3. Begins(g, from, j, k)
  BY <1>1 DEF Begins, LineStart
<1>4. k = l
  BY <1>2, <1>3
<1> QED BY <1>1, <1>2, <1>4

\* The line that ends where the buffer begins has nothing on it.
LEMMA FirstLineEmpty ==
  ASSUME NEW f \in PipeFrameType, NEW from \in Nat, NEW j \in Nat, j = from + 1
  PROVE  Body(f, from, j) = <<>>
<1>1. PICK k \in from + 1 .. j : Body(f, from, j) = SubSeq(f.sent, k, j - 1)
  BY LineBegins
<1>2. k = j
  BY <1>1
<1>3. SubSeq(f.sent, j, j - 1) = <<>>
  BY DEF PipeFrameType
<1> QED BY <1>1, <1>2, <1>3

\* What is queued for a session are lines in full, as the worker printed them,
\* and at most one empty line to a batch besides: the newline of a line read
\* before, which clear has kept (pipeframe.rs:34-94).
THEOREM LinesQueuedWhole == Spec => QueuedLinesWhole
<1>1. ASSUME PipeInv, Next, NEW s \in Sessions, Len(queue'[s]) > Len(queue[s])
      PROVE  LET b == queue'[s][Len(queue'[s])]  f == frame'[b.pipe] IN
             /\ \A j \in b.lines \ KeptNewline(b) : Body(f, b.from, j) = Body(f, 0, j)
             /\ \A j \in b.lines \cap KeptNewline(b) :
                  j <= frame[b.pipe].read /\ Body(f, b.from, j) = <<>>
  <2>1. queue \in [Sessions -> Seq(Batches)] /\ Len(queue[s]) \in Nat
    BY <1>1 DEF PipeInv
  <2>2. queue' # queue
    BY <1>1, <2>1
  <2>3. PICK p \in Pipes : MasterPipe(p)
    BY <1>1, <2>2, OtherPipes DEF Prints, WorkerEnds, MasterPipeFails, streamVars
  <2> DEFINE f == frame[p]
             g == Fill(f)
             t == Parse(g).current
             b == [pipe |-> p, from |-> g.from, lines |-> Saved(g)]
  <2>4. /\ frame' = [frame EXCEPT ![p] = Kept(g)]
        /\ t \in Sessions
        /\ queue' = [queue EXCEPT ![t] = Append(queue[t], b)]
    BY <1>1, <2>2, <2>3, PipeReads
  <2>5. f \in PipeFrameType /\ BufferInv(f)
    BY <1>1 DEF PipeInv, FramesInv
  <2>6. g \in PipeFrameType /\ BufferInv(g) /\ g.from = f.from
    BY <2>5, FillFacts
  <2> HIDE DEF g
  <2>7. Kept(g) \in PipeFrameType /\ Kept(g).sent = g.sent
    BY <2>6, KeptFacts
  <2>8. frame'[p] = Kept(g)
    BY <1>1, <2>4 DEF PipeInv
  <2> HIDE DEF b, t
  <2>9. s = t /\ queue'[s][Len(queue'[s])] = b
    <3>1. s = t
      BY <1>1, <2>1, <2>4
    <3>2. queue'[s] = Append(queue[s], b)
      BY <2>1, <2>4, <3>1
    <3> QED BY <2>1, <3>1, <3>2
  <2>10. b.pipe = p /\ b.from = g.from /\ b.lines = Saved(g)
    BY DEF b
  <2>11. ASSUME NEW j \in Saved(g)
         PROVE  IF j \in KeptNewline(b)
                THEN j <= f.read /\ Body(frame'[p], g.from, j) = <<>>
                ELSE Body(frame'[p], g.from, j) = Body(frame'[p], 0, j)
    <3>1. /\ g.from \in Nat /\ j \in g.from + 1 .. g.read /\ g.read \in Nat
          /\ f.read \in Nat
      BY <2>5, <2>6, LinesInBuffer DEF PipeFrameType
    <3>2. j \in Nat /\ j > g.from /\ j > 0 /\ 0 \in Nat
      BY <3>1
    <3>3. ASSUME g.from = 0 \/ j # g.from + 1
          PROVE  Body(frame'[p], g.from, j) = Body(frame'[p], 0, j)
      <4>1. Body(g, g.from, j) = Body(g, 0, j)
        BY <2>6, <3>2, <3>3, WholeLine
      <4>2. Body(Kept(g), g.from, j) = Body(g, g.from, j)
        BY <2>6, <2>7, <3>1, <3>2, SameBody
      <4>3. Body(Kept(g), 0, j) = Body(g, 0, j)
        BY <2>6, <2>7, <3>2, SameBody
      <4> QED BY <2>8, <4>1, <4>2, <4>3
    <3>4. ASSUME g.from # 0, j = g.from + 1
          PROVE  j <= f.read /\ Body(frame'[p], g.from, j) = <<>>
      <4>1. j <= f.read
        BY <2>5, <2>6, <3>4 DEF BufferInv
      <4>2. Body(g, g.from, j) = <<>>
        BY <2>6, <3>1, <3>2, <3>4, FirstLineEmpty
      <4>3. Body(Kept(g), g.from, j) = Body(g, g.from, j)
        BY <2>6, <2>7, <3>1, <3>2, SameBody
      <4> QED BY <2>8, <4>1, <4>2, <4>3
    <3>5. j \in KeptNewline(b) <=> g.from # 0 /\ j = g.from + 1
      BY <2>10 DEF KeptNewline
    <3>6. CASE j \in KeptNewline(b)
      BY <3>4, <3>5, <3>6
    <3>7. CASE j \notin KeptNewline(b)
      BY <3>3, <3>5, <3>7
    <3> QED BY <3>6, <3>7
  <2> QED BY <2>9, <2>10, <2>11
<1>2. PipeInv /\ [Next]_vars =>
        [\A s \in Sessions : Len(queue'[s]) > Len(queue[s]) =>
           LET b == queue'[s][Len(queue'[s])]  f == frame'[b.pipe] IN
           /\ \A j \in b.lines \ KeptNewline(b) : Body(f, b.from, j) = Body(f, 0, j)
           /\ \A j \in b.lines \cap KeptNewline(b) :
                j <= frame[b.pipe].read /\ Body(f, b.from, j) = <<>>]_vars
  BY <1>1
<1> QED BY <1>2, PipeInvariance, PTL DEF Spec, QueuedLinesWhole

-----------------------------------------------------------------------------
(* Streams *)

\* Tokens tell what they stand for.
LEMMA TokensDiffer ==
  ASSUME NEW s, NEW t, NEW p
  PROVE  /\ ListenerTk # StreamTk(s) /\ ListenerTk # PipeTk(p)
         /\ StreamTk(s) # PipeTk(p)
         /\ StreamTk(s) = StreamTk(t) => s = t
<1>1. /\ ListenerTk[1] = "listener" /\ StreamTk(s)[1] = "stream"
      /\ PipeTk(p)[1] = "pipe"
  BY DEF ListenerTk, StreamTk, PipeTk
<1>2. StreamTk(s)[2] = s /\ StreamTk(t)[2] = t
  BY DEF StreamTk
<1>3. ListenerTk # StreamTk(s) /\ ListenerTk # PipeTk(p) /\ StreamTk(s) # PipeTk(p)
  BY <1>1
<1> QED BY <1>2, <1>3

\* The tokens of streams and pipes are tokens.
LEMMA TokenTypes ==
  /\ ListenerTk \in Tokens /\ ListenerTk \notin StreamTks
  /\ StreamTks \subseteq Tokens /\ PipeTks \subseteq Tokens
  /\ \A s \in Sessions : StreamTk(s) \in StreamTks
  /\ \A p \in Pipes : PipeTk(p) \in PipeTks
BY TokensDiffer DEF Tokens, StreamTks, PipeTks

\* The event of an output stream: how far it is read and written, and that
\* only a stream whose client has closed it, or sent no hello, is given up,
\* events having something to read or room to write.
LEMMA StreamHandled ==
  ASSUME StreamTypes, NEW s \in Sessions, MasterStream(s), OutLen(s) \in Int
  PROVE  /\ seen' \in [Sessions -> Hellos]
         /\ named' \in [Sessions -> BOOLEAN] /\ full' \in [Sessions -> BOOLEAN]
         /\ \E n \in Int : /\ n = 0 \/ n = OutLen(s) \/ n \in 1 .. OutLen(s)
                           /\ wrote' = [wrote EXCEPT ![s] = wrote[s] + n]
         /\ seen'[s] \in {seen[s], hello[s]}
         /\ \A r \in Sessions \ {s} :
              /\ named'[r] = named[r] /\ epoll'[r] = epoll[r]
              /\ seen'[r] = seen[r] /\ full'[r] = full[r]
         /\ \/ /\ epoll' = [epoll EXCEPT ![s] = "none"]
               /\ ready' = ready \ {StreamTk(s)}
               /\ toRemove' = toRemove \cup {StreamTk(s)}
               /\ EventsInv => Hopeless(s)
            \/ /\ epoll' = [epoll EXCEPT ![s] = "RW"]
               /\ ready' = ready \cup {StreamTk(s)} /\ toRemove' = toRemove
            \/ /\ epoll' = epoll /\ ready' = ready /\ toRemove' = toRemove
               /\ named'[s] => named[s]
<1> DEFINE reads == Reads(s)
           writes(failed) == StreamTk(s) \in writable /\ "write" \notin failed
           names(failed) == reads /\ "read" \notin failed /\ Completes(s)
           fails(failed) == \/ reads /\ "read" \in failed
                            \/ StreamTk(s) \in writable /\ "write" \in failed
<1>1. PICK failed \in Failures(s) :
        /\ seen' = [seen EXCEPT ![s] = IF reads THEN hello[s] ELSE @]
        /\ named' = [named EXCEPT ![s] = @ \/ names(failed)]
        /\ \E n \in IF writes(failed) THEN Writes(s) ELSE {0} :
             /\ wrote' = [wrote EXCEPT ![s] = @ + n]
             /\ full' = [full EXCEPT ![s] = @ \/ (writes(failed) /\ n < OutLen(s))]
        /\ IF fails(failed)
           THEN /\ epoll' = [epoll EXCEPT ![s] = "none"]
                /\ ready' = ready \ {StreamTk(s)}
                /\ toRemove' = toRemove \cup {StreamTk(s)}
           ELSE /\ epoll' = [epoll EXCEPT ![s] = IF names(failed) THEN "RW" ELSE @]
                /\ ready' = IF names(failed) THEN ready \cup {StreamTk(s)} ELSE ready
                /\ UNCHANGED toRemove
  BY DEF MasterStream
<1>2. ASSUME fails(failed), EventsInv PROVE Hopeless(s)
  <2>1. CASE gone[s]
    BY <2>1 DEF Hopeless
  <2>2. CASE ~gone[s]
    <3>1. /\ "read" \in failed => ReadFails(s)
          /\ "write" \in failed => WriteFails(s)
      BY <2>2 DEF Failures
    <3>2. CASE reads /\ "read" \in failed
      BY <1>2, <2>2, <3>1, <3>2 DEF Reads, ReadFails, EventsInv, Hopeless
    <3>3. CASE StreamTk(s) \in writable /\ "write" \in failed
      BY <1>2, <2>2, <3>1, <3>3 DEF WriteFails, EventsInv
    <3> QED BY <1>2, <3>2, <3>3
  <2> QED BY <2>1, <2>2
<1> DEFINE nm == names(failed)
           fl == fails(failed)
           wr == writes(failed)
<1>3. nm \in BOOLEAN /\ fl \in BOOLEAN /\ wr \in BOOLEAN
  OBVIOUS
<1>4. /\ seen' = [seen EXCEPT ![s] = IF reads THEN hello[s] ELSE @]
      /\ named' = [named EXCEPT ![s] = @ \/ nm]
      /\ \E n \in IF wr THEN Writes(s) ELSE {0} :
           /\ wrote' = [wrote EXCEPT ![s] = @ + n]
           /\ full' = [full EXCEPT ![s] = @ \/ (wr /\ n < OutLen(s))]
      /\ fl => /\ epoll' = [epoll EXCEPT ![s] = "none"]
               /\ ready' = ready \ {StreamTk(s)}
               /\ toRemove' = toRemove \cup {StreamTk(s)}
      /\ ~fl => /\ epoll' = [epoll EXCEPT ![s] = IF nm THEN "RW" ELSE @]
                /\ ready' = IF nm THEN ready \cup {StreamTk(s)} ELSE ready
                /\ UNCHANGED toRemove
  BY <1>1
<1>5. fl /\ EventsInv => Hopeless(s)
  BY <1>2
<1> HIDE DEF nm, fl, wr, reads
<1>6. /\ seen' \in [Sessions -> Hellos] /\ seen'[s] \in {seen[s], hello[s]}
      /\ \A r \in Sessions \ {s} : seen'[r] = seen[r]
  BY <1>4 DEF StreamTypes
<1>7. named' \in [Sessions -> BOOLEAN] /\ (named'[s] => named[s] \/ nm)
  BY <1>4 DEF StreamTypes
<1>8. /\ full' \in [Sessions -> BOOLEAN]
      /\ \A r \in Sessions \ {s} : full'[r] = full[r]
  <2>1. PICK n : full' = [full EXCEPT ![s] = @ \/ (wr /\ n < OutLen(s))]
    BY <1>4
  <2> QED BY <2>1 DEF StreamTypes
<1>9. \E n \in Int : /\ n = 0 \/ n = OutLen(s) \/ n \in 1 .. OutLen(s)
                     /\ wrote' = [wrote EXCEPT ![s] = wrote[s] + n]
  <2>1. PICK n \in IF wr THEN Writes(s) ELSE {0} :
          wrote' = [wrote EXCEPT ![s] = wrote[s] + n]
    BY <1>4
  <2>2. n = 0 \/ n = OutLen(s) \/ n \in 1 .. OutLen(s)
    BY <2>1 DEF Writes
  <2>3. n \in Int
    BY <2>2
  <2> QED BY <2>1, <2>2, <2>3
<1>10. \A r \in Sessions \ {s} : named'[r] = named[r] /\ epoll'[r] = epoll[r]
  BY <1>3, <1>4 DEF StreamTypes
<1>11. CASE fl
  BY <1>4, <1>5, <1>6, <1>7, <1>8, <1>9, <1>10, <1>11
<1>12. CASE ~fl /\ nm
  BY <1>4, <1>6, <1>7, <1>8, <1>9, <1>10, <1>12
<1>13. CASE ~fl /\ ~nm
  <2>1. epoll' = epoll
    BY <1>4, <1>13 DEF StreamTypes
  <2> QED BY <1>4, <1>6, <1>7, <1>8, <1>9, <1>10, <1>13, <2>1
<1> QED BY <1>11, <1>12, <1>13

\* Every step keeps the types of the streams.
LEMMA NextStreamTypes ==
  ASSUME StreamTypes, \A s \in Sessions : OutLen(s) \in Int, [Next]_vars
  PROVE  StreamTypes'
<1>1. ASSUME NEW s \in Sessions, StreamConnects(s) PROVE StreamTypes'
  BY <1>1 DEF StreamConnects, StreamTypes
<1>2. ASSUME NEW s \in Sessions, NEW h \in {"part", "whole", "bad"}, HelloArrives(s, h)
      PROVE  StreamTypes'
  <2>1. hello' \in [Sessions -> Hellos]
    BY <1>2 DEF HelloArrives, StreamTypes, Hellos
  <2> QED BY <1>2, <2>1 DEF HelloArrives, StreamTypes
<1>3. ASSUME NEW s \in Sessions, StreamCloses(s) PROVE StreamTypes'
  <2>1. gone' \in [Sessions -> BOOLEAN]
    BY <1>3 DEF StreamCloses, StreamTypes
  <2> QED BY <1>3, <2>1 DEF StreamCloses, StreamTypes
<1>4. ASSUME NEW s \in Sessions, SocketDrains(s) PROVE StreamTypes'
  <2>1. full' \in [Sessions -> BOOLEAN]
    BY <1>4 DEF SocketDrains, StreamTypes
  <2> QED BY <1>4, <2>1 DEF SocketDrains, StreamTypes
<1>5. CASE MasterLoopHead
  <2>1. interest' \in [Sessions -> {"RO", "RW"}]
    BY <1>5 DEF MasterLoopHead, StreamTypes, Wanted
  <2>2. epoll' \in [Sessions -> {"none", "RO", "RW"}]
    BY <1>5 DEF MasterLoopHead, StreamTypes, Wanted
  <2>3. place' \in [Sessions -> {"client", "backlog", "open", "removed"}]
    BY <1>5 DEF MasterLoopHead, StreamTypes
  <2> QED BY <1>5, <2>1, <2>2, <2>3 DEF MasterLoopHead, StreamTypes
<1>6. CASE MasterAcceptStream
  <2>1. /\ place' \in [Sessions -> {"client", "backlog", "open", "removed"}]
        /\ epoll' \in [Sessions -> {"none", "RO", "RW"}]
    BY <1>6 DEF MasterAcceptStream, StreamTypes
  <2> QED BY <1>6, <2>1 DEF MasterAcceptStream, StreamTypes
<1>10. CASE MasterAcceptFails
  BY <1>10 DEF MasterAcceptFails, StreamTypes, streamVars
<1>7. ASSUME NEW s \in Sessions, MasterStream(s) PROVE StreamTypes'
  <2>1. /\ seen' \in [Sessions -> Hellos]
        /\ named' \in [Sessions -> BOOLEAN] /\ full' \in [Sessions -> BOOLEAN]
        /\ \/ epoll' = [epoll EXCEPT ![s] = "none"]
           \/ epoll' = [epoll EXCEPT ![s] = "RW"]
           \/ epoll' = epoll
    BY <1>7, StreamHandled
  <2>2. epoll' \in [Sessions -> {"none", "RO", "RW"}]
    BY <2>1 DEF StreamTypes
  <2>3. UNCHANGED <<place, gone, hello, interest>>
    BY <1>7 DEF MasterStream
  <2> QED BY <2>1, <2>2, <2>3 DEF StreamTypes
<1>8. ASSUME \/ MasterPoll \/ UNCHANGED vars
             \/ \E p \in Pipes : \/ PipeStep(p) \/ MasterPipe(p) \/ MasterPipeFails(p)
      PROVE  UNCHANGED <<place, gone, hello, seen, epoll, interest, named, full>>
  BY <1>8 DEF MasterPoll, PipeStep, Prints, WorkerEnds, MasterPipe,
              MasterPipeFails, vars, streamVars
<1>9. ASSUME UNCHANGED <<place, gone, hello, seen, epoll, interest, named, full>>
      PROVE  StreamTypes'
  BY <1>9 DEF StreamTypes
<1> QED BY <1>1, <1>2, <1>3, <1>4, <1>5, <1>6, <1>7, <1>8, <1>9, <1>10
           DEF Next, StreamStep, MasterStep

\* What is left to be written is a number.
LEMMA OutLens ==
  ASSUME PipeInv, WroteInv
  PROVE  \A s \in Sessions : /\ Len(queue[s]) \in Nat /\ wrote[s] \in Nat
                             /\ OutLen(s) \in Nat
                             /\ OutLen(s) = 2 * Len(queue[s]) - wrote[s]
<1>1. ASSUME NEW s \in Sessions
      PROVE  /\ Len(queue[s]) \in Nat /\ wrote[s] \in Nat
             /\ wrote[s] <= 2 * Len(queue[s])
  BY DEF PipeInv, WroteInv
<1> QED BY <1>1 DEF OutLen

\* Every step writes no more than was queued.
LEMMA NextWrote ==
  ASSUME PipeInv, StreamTypes, WroteInv, [Next]_vars
  PROVE  WroteInv'
<1>1. CASE UNCHANGED <<wrote, queue>>
  BY <1>1 DEF WroteInv
<1>2. ASSUME NEW p \in Pipes, MasterPipe(p) PROVE WroteInv'
  <2>1. wrote' = wrote
    BY <1>2 DEF MasterPipe
  <2>2. ASSUME NEW s \in Sessions PROVE Len(queue'[s]) >= Len(queue[s])
    <3>1. queue \in [Sessions -> Seq(Batches)] /\ Len(queue[s]) \in Nat
      BY DEF PipeInv
    <3>2. CASE queue' = queue
      BY <3>1, <3>2
    <3>3. ASSUME NEW t, NEW b, queue' = [queue EXCEPT ![t] = Append(queue[t], b)]
          PROVE  Len(queue'[s]) >= Len(queue[s])
      <4>1. queue'[s] = queue[s] \/ queue'[s] = Append(queue[s], b)
        BY <3>1, <3>3
      <4>2. Len(Append(queue[s], b)) = Len(queue[s]) + 1
        BY <3>1
      <4> QED BY <3>1, <4>1, <4>2
    <3> QED BY <1>2, <3>2, <3>3, PipeReads
  <2>3. ASSUME NEW s \in Sessions
        PROVE  wrote[s] \in Nat /\ wrote[s] <= 2 * Len(queue'[s])
    <3>1. Len(queue[s]) \in Nat /\ Len(queue'[s]) >= Len(queue[s])
      BY <2>2, OutLens
    <3>2. Len(queue'[s]) \in Nat
      <4>1. queue' \in [Sessions -> Seq(Batches)]
        BY NextPipes DEF PipeInv
      <4> QED BY <4>1
    <3> QED BY <3>1, <3>2 DEF WroteInv
  <2> QED BY <2>1, <2>3 DEF WroteInv
<1>3. ASSUME NEW s \in Sessions, MasterStream(s) PROVE WroteInv'
  <2>1. /\ Len(queue[s]) \in Nat /\ wrote[s] \in Nat /\ OutLen(s) \in Nat
        /\ OutLen(s) = 2 * Len(queue[s]) - wrote[s]
    BY OutLens
  <2>2. PICK n \in Int : /\ n = 0 \/ n = OutLen(s) \/ n \in 1 .. OutLen(s)
                         /\ wrote' = [wrote EXCEPT ![s] = wrote[s] + n]
    BY <1>3, <2>1, StreamHandled
  <2>3. wrote[s] + n \in Nat /\ wrote[s] + n <= 2 * Len(queue[s])
    BY <2>1, <2>2
  <2>4. queue' = queue
    BY <1>3 DEF MasterStream
  <2> QED BY <2>2, <2>3, <2>4 DEF WroteInv
<1>4. ASSUME NEW s \in Sessions, StreamStep(s) PROVE UNCHANGED <<wrote, queue>>
  BY <1>4 DEF StreamStep, StreamConnects, HelloArrives, StreamCloses, SocketDrains
<1>5. ASSUME \/ MasterLoopHead \/ MasterPoll \/ MasterAcceptStream \/ MasterAcceptFails
             \/ UNCHANGED vars
             \/ \E p \in Pipes : PipeStep(p) \/ MasterPipeFails(p)
      PROVE  UNCHANGED <<wrote, queue>>
  BY <1>5 DEF MasterLoopHead, MasterPoll, MasterAcceptStream, MasterAcceptFails,
              PipeStep, Prints, WorkerEnds, MasterPipeFails, vars, streamVars
<1> QED BY <1>1, <1>2, <1>3, <1>4, <1>5 DEF Next, MasterStep

\* What the handler of an event does to the batch.
LEMMA EventHandled ==
  ASSUME LoopTypes, NEW tk, HandleEvent(tk)
  PROVE  /\ mpc' \in {"top", "batch"} /\ tk \in readable \cup writable
         /\ readable' = readable \ {tk}
         /\ readable' \subseteq Tokens /\ writable' \subseteq StreamTks
BY DEF LoopTypes, HandleEvent

\* Every step keeps the types of the loop, and the listener's event comes with
\* a connection.
LEMMA NextLoop ==
  ASSUME StreamTypes, \A s \in Sessions : OutLen(s) \in Int,
         LoopTypes, ListenerInv, [Next]_vars
  PROVE  LoopTypes' /\ ListenerInv'
<1>1. /\ ready \subseteq Tokens /\ readable \subseteq Tokens
      /\ writable \subseteq StreamTks /\ backlog \in Seq(Sessions)
      /\ watched \subseteq Pipes /\ toRemove \subseteq StreamTks \cup PipeTks
      /\ mpc \in {"top", "poll", "batch"}
  BY DEF LoopTypes
<1>2. ASSUME NEW s \in Sessions
      PROVE  /\ ready \cup {ListenerTk} \subseteq Tokens
             /\ ready \cup {StreamTk(s)} \subseteq Tokens
             /\ EdgeAt(s) \subseteq Tokens
  BY <1>1, TokenTypes DEF EdgeAt
<1>3. ASSUME NEW p \in Pipes
      PROVE  ready \cup {PipeTk(p)} \subseteq Tokens
  BY <1>1, TokenTypes
<1>4. ASSUME NEW s \in Sessions, StreamConnects(s) PROVE LoopTypes' /\ ListenerInv'
  <2>1. backlog' \in Seq(Sessions) /\ backlog' # <<>>
    <3>1. backlog' = Append(backlog, s)
      BY <1>4 DEF StreamConnects
    <3>2. Len(backlog') = Len(backlog) + 1 /\ backlog' \in Seq(Sessions)
      BY <1>1, <3>1
    <3> QED BY <1>1, <3>2
  <2> QED BY <1>1, <1>2, <1>4, <2>1 DEF StreamConnects, LoopTypes, ListenerInv
<1>5. ASSUME NEW s \in Sessions,
             \/ \E h \in {"part", "whole", "bad"} : HelloArrives(s, h)
             \/ StreamCloses(s) \/ SocketDrains(s)
      PROVE  LoopTypes' /\ ListenerInv'
  <2>1. /\ ready' = EdgeAt(s)
        /\ UNCHANGED <<mpc, backlog, readable, writable, watched, toRemove>>
    BY <1>5 DEF HelloArrives, StreamCloses, SocketDrains
  <2> QED BY <1>1, <1>2, <2>1 DEF LoopTypes, ListenerInv
<1>6. ASSUME NEW p \in Pipes, PipeStep(p) PROVE LoopTypes' /\ ListenerInv'
  <2>1. /\ ready' = IF p \in watched THEN ready \cup {PipeTk(p)} ELSE ready
        /\ UNCHANGED <<mpc, backlog, readable, writable, watched, toRemove>>
    BY <1>6 DEF PipeStep, Prints, WorkerEnds
  <2> QED BY <1>1, <1>3, <2>1 DEF LoopTypes, ListenerInv
<1>7. CASE MasterLoopHead
  <2>1. ready' \subseteq Tokens /\ toRemove' \subseteq StreamTks
    BY <1>1, <1>7, TokenTypes DEF MasterLoopHead
  <2> QED BY <1>1, <1>7, <2>1 DEF MasterLoopHead, LoopTypes, ListenerInv
<1>8. CASE MasterPoll
  <2>1. /\ readable' = {tk \in ready : Readable(tk)}
        /\ writable' = {tk \in ready : Writable(tk)}
        /\ ready' = {} /\ mpc' \in {"top", "batch"}
        /\ UNCHANGED <<backlog, watched, toRemove>>
    BY <1>8 DEF MasterPoll
  <2>2. \A tk : Writable(tk) => tk \in StreamTks
    BY TokenTypes DEF Writable
  <2>3. Readable(ListenerTk) => backlog # <<>>
    BY TokensDiffer DEF Readable
  <2>4. ListenerInv'
    BY <2>1, <2>3 DEF ListenerInv
  <2> QED BY <1>1, <2>1, <2>2, <2>4 DEF LoopTypes
<1>9. CASE MasterAcceptStream
  <2>1. HandleEvent(ListenerTk)
    BY <1>9 DEF MasterAcceptStream
  <2>2. backlog # <<>> /\ ListenerTk \notin readable'
    BY <1>1, <2>1, TokenTypes, EventHandled DEF ListenerInv
  <2>3. Head(backlog) \in Sessions /\ Tail(backlog) \in Seq(Sessions)
    BY <1>1, <2>2
  <2>4. /\ backlog' = Tail(backlog)
        /\ ready' \subseteq ready \cup {StreamTk(Head(backlog))}
        /\ UNCHANGED <<watched, toRemove>>
    BY <1>9 DEF MasterAcceptStream
  <2>5. ready' \subseteq Tokens
    BY <1>2, <2>3, <2>4
  <2> QED BY <1>1, <2>1, <2>2, <2>3, <2>4, <2>5, EventHandled
             DEF LoopTypes, ListenerInv
<1>10. ASSUME NEW s \in Sessions, MasterStream(s) PROVE LoopTypes' /\ ListenerInv'
  <2>1. HandleEvent(StreamTk(s)) /\ UNCHANGED <<backlog, watched>>
    BY <1>10 DEF MasterStream
  <2>2. /\ ready' \subseteq ready \cup {StreamTk(s)}
        /\ toRemove' \subseteq toRemove \cup {StreamTk(s)}
    BY <1>10, StreamHandled
  <2>3. ready' \subseteq Tokens /\ toRemove' \subseteq StreamTks \cup PipeTks
    BY <1>1, <1>2, <2>2, TokenTypes
  <2>4. readable' \subseteq readable
    BY <2>1, EventHandled
  <2> QED BY <1>1, <2>1, <2>3, <2>4, EventHandled DEF LoopTypes, ListenerInv
<1>11. ASSUME NEW p \in Pipes, MasterPipe(p) \/ MasterPipeFails(p)
       PROVE  LoopTypes' /\ ListenerInv'
  <2>1. HandleEvent(PipeTk(p)) /\ UNCHANGED backlog
    BY <1>11 DEF MasterPipe, MasterPipeFails
  <2>2. /\ ready' \subseteq ready /\ watched' \subseteq watched
        /\ toRemove' \subseteq toRemove \cup {PipeTk(p)}
    BY <1>11 DEF MasterPipe, MasterPipeFails
  <2>3. toRemove' \subseteq StreamTks \cup PipeTks
    BY <1>1, <2>2, TokenTypes
  <2>4. readable' \subseteq readable
    BY <2>1, EventHandled
  <2> QED BY <1>1, <2>1, <2>2, <2>3, <2>4, EventHandled DEF LoopTypes, ListenerInv
<1>13. CASE MasterAcceptFails
  <2>1. HandleEvent(ListenerTk) /\ UNCHANGED <<backlog, ready, watched, toRemove>>
    BY <1>13 DEF MasterAcceptFails
  <2>2. ListenerTk \notin readable'
    BY <2>1, EventHandled
  <2> QED BY <1>1, <2>1, <2>2, EventHandled DEF LoopTypes, ListenerInv
<1>12. CASE UNCHANGED vars
  <2>1. UNCHANGED <<mpc, backlog, ready, readable, writable, watched, toRemove>>
    BY <1>12 DEF vars, loopVars
  <2> QED BY <1>1, <2>1 DEF LoopTypes, ListenerInv
<1> QED BY <1>4, <1>5, <1>6, <1>7, <1>8, <1>9, <1>10, <1>11, <1>12, <1>13
           DEF Next, StreamStep, MasterStep

\* Once it has its reason to be given up, a stream keeps it.
LEMMA HopelessStays ==
  ASSUME StreamTypes, [Next]_vars, NEW r \in Sessions, Hopeless(r)
  PROVE  Hopeless(r)'
<1>1. ASSUME NEW s \in Sessions, NEW h \in {"part", "whole", "bad"}, HelloArrives(s, h)
      PROVE  Hopeless(r)'
  <2>1. UNCHANGED gone /\ h \in HelloNext(s) /\ hello' = [hello EXCEPT ![s] = h]
    BY <1>1 DEF HelloArrives
  <2>2. hello[s] # "bad"
    BY <2>1 DEF HelloNext
  <2> QED BY <2>1, <2>2 DEF Hopeless, StreamTypes
<1>2. ASSUME NEW s \in Sessions, StreamCloses(s) PROVE Hopeless(r)'
  <2>1. UNCHANGED hello /\ gone' = [gone EXCEPT ![s] = TRUE]
    BY <1>2 DEF StreamCloses
  <2>2. gone[r] => gone'[r]
    BY <2>1 DEF StreamTypes
  <2> QED BY <2>1, <2>2 DEF Hopeless
<1>3. ASSUME NEW s \in Sessions, StreamConnects(s) \/ SocketDrains(s)
      PROVE  UNCHANGED <<gone, hello>>
  BY <1>3 DEF StreamConnects, SocketDrains
<1>4. ASSUME MasterStep \/ UNCHANGED vars \/ \E p \in Pipes : PipeStep(p)
      PROVE  UNCHANGED <<gone, hello>>
  BY <1>4 DEF MasterStep, MasterLoopHead, MasterPoll, MasterAcceptStream,
              MasterAcceptFails, MasterStream, MasterPipe, MasterPipeFails, PipeStep, Prints,
              WorkerEnds, vars, streamVars
<1>5. ASSUME UNCHANGED <<gone, hello>> PROVE Hopeless(r)'
  BY <1>5 DEF Hopeless
<1> QED BY <1>1, <1>2, <1>3, <1>4, <1>5 DEF Next, StreamStep

\* Every step keeps something to read, or room, for the events to come: a hello
\* only goes on, and only master writes.
LEMMA NextEvents ==
  ASSUME StreamTypes, \A s \in Sessions : OutLen(s) \in Int, EventsInv, [Next]_vars
  PROVE  EventsInv'
<1> DEFINE Timely(s) ==
             /\ seen[s] = "part" => hello[s] # "none"
             /\ seen[s] \in {"whole", "bad"} => hello[s] = seen[s]
             /\ StreamTk(s) \in readable => hello[s] # seen[s] \/ gone[s]
             /\ StreamTk(s) \in writable => ~full[s] \/ gone[s]
<1>1. \A s \in Sessions : Timely(s)
  BY DEF EventsInv
<1>2. ASSUME UNCHANGED <<gone, hello, seen, full>>,
             readable' \subseteq readable, writable' \subseteq writable
      PROVE  EventsInv'
  BY <1>2 DEF EventsInv
<1>3. ASSUME NEW s \in Sessions, NEW h \in {"part", "whole", "bad"}, HelloArrives(s, h)
      PROVE  EventsInv'
  <2>1. /\ h \in HelloNext(s) /\ hello' = [hello EXCEPT ![s] = h]
        /\ UNCHANGED <<gone, seen, full, readable, writable>>
    BY <1>3 DEF HelloArrives
  <2>2. ASSUME NEW r \in Sessions PROVE Timely(r)'
    <3>1. CASE r # s
      BY <1>1, <2>1, <3>1 DEF StreamTypes
    <3>2. CASE r = s
      <4>1. hello'[s] = h
        BY <2>1 DEF StreamTypes
      <4>2. /\ hello[s] = "none" \/ (hello[s] = "part" /\ h # "part")
            /\ seen[s] \in Hellos
        BY <2>1 DEF HelloNext, StreamTypes
      <4>3. h # seen[s] /\ seen[s] \notin {"whole", "bad"}
        BY <1>1, <4>2 DEF Hellos
      <4> QED BY <1>1, <2>1, <3>2, <4>1, <4>3
    <3> QED BY <3>1, <3>2
  <2> QED BY <2>2 DEF EventsInv
<1>4. ASSUME NEW s \in Sessions, StreamCloses(s) PROVE EventsInv'
  <2>1. /\ gone' = [gone EXCEPT ![s] = TRUE]
        /\ UNCHANGED <<hello, seen, full, readable, writable>>
    BY <1>4 DEF StreamCloses
  <2>2. \A r \in Sessions : gone[r] => gone'[r]
    BY <2>1 DEF StreamTypes
  <2> QED BY <2>1, <2>2 DEF EventsInv
<1>5. ASSUME NEW s \in Sessions, SocketDrains(s) PROVE EventsInv'
  <2>1. /\ full' = [full EXCEPT ![s] = FALSE]
        /\ UNCHANGED <<hello, seen, gone, readable, writable>>
    BY <1>5 DEF SocketDrains
  <2>2. \A r \in Sessions : full'[r] => full[r]
    BY <2>1 DEF StreamTypes
  <2> QED BY <2>1, <2>2 DEF EventsInv
<1>6. ASSUME NEW s \in Sessions, StreamConnects(s) PROVE EventsInv'
  BY <1>2, <1>6 DEF StreamConnects
<1>7. CASE MasterPoll
  <2>1. /\ readable' = {tk \in ready : Readable(tk)}
        /\ writable' = {tk \in ready : Writable(tk)}
        /\ UNCHANGED <<gone, hello, seen, full>>
    BY <1>7 DEF MasterPoll, streamVars
  <2>2. ASSUME NEW s \in Sessions
        PROVE  /\ Readable(StreamTk(s)) => hello[s] # seen[s] \/ gone[s]
               /\ Writable(StreamTk(s)) => ~full[s] \/ gone[s]
    BY TokensDiffer DEF Readable, Writable
  <2> QED BY <2>1, <2>2 DEF EventsInv
<1>8. ASSUME NEW s \in Sessions, MasterStream(s) PROVE EventsInv'
  <2>1. /\ readable' = readable \ {StreamTk(s)} /\ writable' = writable \ {StreamTk(s)}
        /\ UNCHANGED <<gone, hello>>
    BY <1>8 DEF MasterStream, HandleEvent
  <2>2. /\ seen'[s] \in {seen[s], hello[s]}
        /\ \A r \in Sessions \ {s} : seen'[r] = seen[r] /\ full'[r] = full[r]
    BY <1>8, StreamHandled
  <2>3. ASSUME NEW r \in Sessions PROVE Timely(r)'
    <3>1. CASE r # s
      BY <1>1, <2>1, <2>2, <3>1
    <3>2. CASE r = s
      <4>1. StreamTk(s) \notin readable' /\ StreamTk(s) \notin writable'
        BY <2>1
      <4> QED BY <1>1, <2>1, <2>2, <3>2, <4>1
    <3> QED BY <3>1, <3>2
  <2> QED BY <2>3 DEF EventsInv
<1>9. ASSUME \/ MasterAcceptStream \/ MasterAcceptFails \/ MasterLoopHead
             \/ \E p \in Pipes : PipeStep(p) \/ MasterPipe(p) \/ MasterPipeFails(p)
             \/ UNCHANGED vars
      PROVE  /\ UNCHANGED <<gone, hello, seen, full>>
             /\ readable' \subseteq readable /\ writable' \subseteq writable
  BY <1>9 DEF MasterAcceptStream, MasterAcceptFails, MasterLoopHead, HandleEvent,
              PipeStep, Prints, WorkerEnds, MasterPipe, MasterPipeFails, vars,
              streamVars, loopVars
<1> QED BY <1>2, <1>3, <1>4, <1>5, <1>6, <1>7, <1>8, <1>9
           DEF Next, StreamStep, MasterStep

\* Every step gives up a stream with reason only.
LEMMA NextRemoved ==
  ASSUME StreamTypes, \A s \in Sessions : OutLen(s) \in Int, LoopTypes,
         EventsInv, RemovedInv, [Next]_vars
  PROVE  RemovedInv'
<1>1. ASSUME NEW r \in Sessions
      PROVE  /\ named[r] /\ epoll[r] = "none" => Hopeless(r)
             /\ StreamTk(r) \in toRemove => Hopeless(r)
             /\ Hopeless(r) => Hopeless(r)'
  BY HopelessStays DEF RemovedInv
<1>2. CASE UNCHANGED <<named, epoll, toRemove>>
  BY <1>1, <1>2 DEF RemovedInv
<1>3. CASE MasterLoopHead
  <2> DEFINE changed == {s \in Sessions : named[s] /\ interest[s] # Wanted(s)}
             alive   == {s \in changed : epoll[s] # "none"}
  <2>1. /\ UNCHANGED named
        /\ epoll' = [s \in Sessions |-> IF s \in alive THEN Wanted(s) ELSE epoll[s]]
        /\ toRemove' = {StreamTk(s) : s \in changed \ alive}
    BY <1>3 DEF MasterLoopHead
  <2>2. ASSUME NEW r \in Sessions
        PROVE  /\ epoll'[r] = "none" => epoll[r] = "none"
               /\ StreamTk(r) \in toRemove' => named[r] /\ epoll[r] = "none"
    <3>1. epoll'[r] = "none" => epoll[r] = "none"
      BY <2>1 DEF Wanted
    <3>2. ASSUME StreamTk(r) \in toRemove' PROVE named[r] /\ epoll[r] = "none"
      <4>1. PICK s \in changed \ alive : StreamTk(r) = StreamTk(s)
        BY <2>1, <3>2
      <4>2. r = s
        BY <4>1, TokensDiffer
      <4> QED BY <4>1, <4>2
    <3> QED BY <3>1, <3>2
  <2> QED BY <1>1, <2>1, <2>2 DEF RemovedInv
<1>4. CASE MasterAcceptStream
  <2>1. /\ UNCHANGED <<named, toRemove>>
        /\ epoll' = [epoll EXCEPT ![Head(backlog)] = "RO"]
    BY <1>4 DEF MasterAcceptStream
  <2>2. \A r \in Sessions : epoll'[r] = "none" => epoll[r] = "none"
    BY <2>1 DEF StreamTypes
  <2> QED BY <1>1, <2>1, <2>2 DEF RemovedInv
<1>5. ASSUME NEW s \in Sessions, MasterStream(s) PROVE RemovedInv'
  <2>1. /\ named' \in [Sessions -> BOOLEAN]
        /\ \A r \in Sessions \ {s} : named'[r] = named[r] /\ epoll'[r] = epoll[r]
        /\ \/ /\ epoll' = [epoll EXCEPT ![s] = "none"]
              /\ toRemove' = toRemove \cup {StreamTk(s)} /\ Hopeless(s)
           \/ epoll' = [epoll EXCEPT ![s] = "RW"] /\ toRemove' = toRemove
           \/ epoll' = epoll /\ toRemove' = toRemove /\ (named'[s] => named[s])
    BY <1>5, StreamHandled
  <2>2. ASSUME NEW r \in Sessions
        PROVE  /\ named'[r] /\ epoll'[r] = "none" => Hopeless(r)'
               /\ StreamTk(r) \in toRemove' => Hopeless(r)'
    <3>1. CASE r # s
      <4>1. named'[r] = named[r] /\ epoll'[r] = epoll[r]
        BY <2>1, <3>1
      <4>2. StreamTk(r) # StreamTk(s)
        BY <3>1, TokensDiffer
      <4>3. StreamTk(r) \in toRemove' => StreamTk(r) \in toRemove
        BY <2>1, <4>2
      <4> QED BY <1>1, <4>1, <4>3
    <3>2. CASE r = s /\ Hopeless(s)
      BY <1>1, <3>2
    <3>3. CASE r = s /\ ~Hopeless(s)
      <4>1. \/ epoll' = [epoll EXCEPT ![s] = "RW"] /\ toRemove' = toRemove
            \/ epoll' = epoll /\ toRemove' = toRemove /\ (named'[s] => named[s])
        BY <2>1, <3>3
      <4>2. StreamTk(r) \notin toRemove'
        BY <1>1, <3>3, <4>1
      <4>3. ~(named'[r] /\ epoll'[r] = "none")
        BY <1>1, <3>3, <4>1 DEF StreamTypes
      <4> QED BY <4>2, <4>3
    <3> QED BY <3>1, <3>2, <3>3
  <2> QED BY <2>2 DEF RemovedInv
<1>6. ASSUME NEW p \in Pipes, MasterPipeFails(p) PROVE RemovedInv'
  <2>1. UNCHANGED <<named, epoll>> /\ toRemove' = toRemove \cup {PipeTk(p)}
    BY <1>6 DEF MasterPipeFails, streamVars
  <2>2. \A r \in Sessions : StreamTk(r) \in toRemove' => StreamTk(r) \in toRemove
    BY <2>1, TokensDiffer
  <2> QED BY <1>1, <2>1, <2>2 DEF RemovedInv
<1>7. ASSUME \/ \E s \in Sessions : StreamStep(s)
             \/ MasterPoll \/ MasterAcceptFails \/ UNCHANGED vars
             \/ \E p \in Pipes : PipeStep(p) \/ MasterPipe(p)
      PROVE  UNCHANGED <<named, epoll, toRemove>>
  BY <1>7 DEF StreamStep, StreamConnects, HelloArrives, StreamCloses, SocketDrains,
              MasterPoll, MasterAcceptFails, PipeStep, Prints, WorkerEnds,
              MasterPipe, vars, streamVars, loopVars
<1> QED BY <1>2, <1>3, <1>4, <1>5, <1>6, <1>7 DEF Next, MasterStep

\* The inductive invariant of the streams, relative to that of the pipes.
LEMMA StreamInvariance == Spec => []StreamInv
<1>1. Init => StreamInv
  <2> SUFFICES ASSUME Init PROVE StreamInv
    OBVIOUS
  <2>1. StreamTypes
    <3>1. \A s \in Sessions : ~gone[s] /\ ~named[s] /\ ~full[s]
      BY DEF Init
    <3>2. /\ gone \in [Sessions -> BOOLEAN] /\ named \in [Sessions -> BOOLEAN]
          /\ full \in [Sessions -> BOOLEAN]
      BY DEF Init
    <3> QED BY <3>2 DEF Init, StreamTypes, Hellos
  <2>2. WroteInv
    <3>1. Len(<<>>) = 0
      OBVIOUS
    <3> QED BY <3>1 DEF Init, WroteInv
  <2>3. LoopTypes /\ ListenerInv
    <3>1. <<>> \in Seq(Sessions)
      OBVIOUS
    <3> QED BY <3>1 DEF Init, LoopTypes, ListenerInv
  <2>4. RemovedInv
    <3>1. ASSUME NEW s \in Sessions
          PROVE  ~named[s] /\ StreamTk(s) \notin toRemove
      BY DEF Init
    <3> QED BY <3>1 DEF RemovedInv
  <2>5. EventsInv
    BY DEF Init, EventsInv
  <2> QED BY <2>1, <2>2, <2>3, <2>4, <2>5 DEF StreamInv
<1>2. PipeInv /\ StreamInv /\ [Next]_vars => StreamInv'
  <2> SUFFICES ASSUME PipeInv, StreamInv, [Next]_vars PROVE StreamInv'
    OBVIOUS
  <2>1. /\ StreamTypes /\ WroteInv /\ LoopTypes /\ ListenerInv
        /\ EventsInv /\ RemovedInv
    BY DEF StreamInv
  <2>2. \A s \in Sessions : OutLen(s) \in Int
    BY <2>1, OutLens
  <2>3. StreamTypes'
    BY <2>1, <2>2, NextStreamTypes
  <2>4. WroteInv'
    BY <2>1, NextWrote
  <2>5. LoopTypes' /\ ListenerInv'
    BY <2>1, <2>2, NextLoop
  <2>6. RemovedInv'
    BY <2>1, <2>2, NextRemoved
  <2>7. EventsInv'
    BY <2>1, <2>2, NextEvents
  <2> QED BY <2>3, <2>4, <2>5, <2>6, <2>7 DEF StreamInv
<1> QED BY <1>1, <1>2, PipeInvariance, PTL DEF Spec

\* Every variable of master's output side keeps its type; a batch's lines are
\* lines of its pipe, and no more is written than was queued (outputstream.rs).
THEOREM OutputTypes == Spec => []TypeOK
<1>1. PipeInv /\ StreamInv => TypeOK
  <2> SUFFICES ASSUME PipeInv, StreamInv PROVE TypeOK
    OBVIOUS
  <2>1. ASSUME NEW s \in Sessions, NEW i \in 1 .. Len(queue[s])
        PROVE  /\ queue[s][i].pipe \in Pipes
               /\ queue[s][i].lines \subseteq 1 .. frame[queue[s][i].pipe].read
    <3>1. queue[s][i] \in Batches /\ Passed(queue[s][i])
      BY DEF PipeInv, BatchesPassed
    <3> QED BY <3>1 DEF Batches, Passed
  <2>2. StreamsTypeOK
    BY <2>1 DEF StreamInv, StreamTypes, WroteInv, StreamsTypeOK
  <2> QED BY <2>2 DEF PipeInv, StreamInv, WroteInv, LoopTypes, TypeOK
<1> QED BY <1>1, PipeInvariance, StreamInvariance, PTL

\* A client that has not closed its output stream, and sent a hello, keeps it:
\* no event is so stale that its read or write would block (mod.rs:304-328).
THEOREM StreamsKept == Spec => []LiveStreamNotDropped
<1>1. StreamInv => LiveStreamNotDropped
  BY DEF StreamInv, RemovedInv, Hopeless, LiveStreamNotDropped
<1> QED BY <1>1, StreamInvariance, PTL

-----------------------------------------------------------------------------
(* The session that is current *)

\* Events come of pipes that are watched, and on those the session current is
\* the one that was printed.
CurrentInv ==
  /\ \A p \in Pipes : PipeTk(p) \in ready \cup readable \cup writable => p \in watched
  /\ \A p \in Pipes : p \in watched => Faithful(frame[p])

\* No pipe is watched again, and its events come while it is.
LEMMA NextWatched ==
  ASSUME CurrentInv, [Next]_vars
  PROVE  /\ watched' \subseteq watched
         /\ \A p \in Pipes :
              PipeTk(p) \in ready' \cup readable' \cup writable' => p \in watched'
<1> DEFINE Events == ready \cup readable \cup writable
           Goal == /\ watched' \subseteq watched
                   /\ \A p \in Pipes : PipeTk(p) \in Events' => p \in watched'
<1>1. \A p \in Pipes : PipeTk(p) \in Events => p \in watched
  BY DEF CurrentInv
<1>2. \A s, p : StreamTk(s) # PipeTk(p) /\ ListenerTk # PipeTk(p)
  BY TokensDiffer
<1>3. \A p, q : PipeTk(p) = PipeTk(q) => p = q
  BY DEF PipeTk
<1>4. ASSUME UNCHANGED <<readable, writable, watched>>,
             \A tk \in ready' : tk \in ready \/ tk = ListenerTk \/ tk \in StreamTks
      PROVE  Goal
  BY <1>1, <1>2, <1>4 DEF StreamTks
<1>5. ASSUME NEW s \in Sessions, StreamStep(s) PROVE Goal
  <2>1. /\ UNCHANGED <<readable, writable, watched>>
        /\ ready' = ready \cup {ListenerTk} \/ ready' = EdgeAt(s)
    BY <1>5 DEF StreamStep, StreamConnects, HelloArrives, StreamCloses, SocketDrains
  <2>2. \A tk \in EdgeAt(s) : tk \in ready \/ tk = StreamTk(s)
    BY DEF EdgeAt
  <2>3. StreamTk(s) \in StreamTks
    BY DEF StreamTks
  <2> QED BY <1>4, <2>1, <2>2, <2>3
<1>6. ASSUME NEW p \in Pipes, PipeStep(p) PROVE Goal
  <2>1. /\ ready' = IF p \in watched THEN ready \cup {PipeTk(p)} ELSE ready
        /\ UNCHANGED <<readable, writable, watched>>
    BY <1>6 DEF PipeStep, Prints, WorkerEnds
  <2> QED BY <1>1, <1>3, <2>1
<1>7. CASE MasterLoopHead
  <2>1. /\ UNCHANGED <<readable, writable, watched>>
        /\ \A tk \in ready' : tk \in ready \/ tk \in StreamTks
    BY <1>7 DEF MasterLoopHead, StreamTks
  <2> QED BY <1>4, <2>1
<1>8. CASE MasterPoll
  <2>1. readable' \subseteq ready /\ writable' \subseteq ready /\ ready' = {}
        /\ watched' = watched
    BY <1>8 DEF MasterPoll
  <2> QED BY <1>1, <2>1
<1>9. ASSUME NEW tk, HandleEvent(tk), watched' = watched,
             \A e \in ready' : e \in ready \/ e \in StreamTks
      PROVE  Goal
  <2>1. readable' \subseteq readable /\ writable' \subseteq writable
    BY <1>9 DEF HandleEvent
  <2> QED BY <1>1, <1>2, <1>9, <2>1 DEF StreamTks
<1>10. CASE MasterAcceptStream
  <2>1. /\ UNCHANGED <<watched>>
        /\ ready' \subseteq ready \cup {StreamTk(Head(backlog))}
        /\ HandleEvent(ListenerTk)
    BY <1>10 DEF MasterAcceptStream
  <2>2. readable' \subseteq readable /\ writable' \subseteq writable
    BY <2>1 DEF HandleEvent
  <2> QED BY <1>1, <1>2, <2>1, <2>2
<1>15. CASE MasterAcceptFails
  <2>1. HandleEvent(ListenerTk) /\ UNCHANGED <<watched, ready>>
    BY <1>15 DEF MasterAcceptFails
  <2> QED BY <1>9, <2>1
<1>11. ASSUME NEW s \in Sessions, MasterStream(s) PROVE Goal
  <2>1. /\ HandleEvent(StreamTk(s)) /\ watched' = watched
        /\ ready' \subseteq ready \cup {StreamTk(s)}
    BY <1>11 DEF MasterStream
  <2>2. \A e \in ready' : e \in ready \/ e \in StreamTks
    BY <2>1 DEF StreamTks
  <2> QED BY <1>9, <2>1, <2>2
<1>12. ASSUME NEW p \in Pipes, MasterPipe(p) PROVE Goal
  <2>1. HandleEvent(PipeTk(p)) /\ UNCHANGED <<watched, ready>>
    BY <1>12 DEF MasterPipe
  <2> QED BY <1>9, <2>1
<1>13. ASSUME NEW p \in Pipes, MasterPipeFails(p) PROVE Goal
  <2>1. /\ HandleEvent(PipeTk(p)) /\ watched' = watched \ {p}
        /\ ready' = ready \ {PipeTk(p)}
    BY <1>13 DEF MasterPipeFails
  <2>2. readable' = readable \ {PipeTk(p)} /\ writable' = writable \ {PipeTk(p)}
    BY <2>1 DEF HandleEvent
  <2> QED BY <1>1, <2>1, <2>2
<1>14. CASE UNCHANGED vars
  BY <1>1, <1>14 DEF vars, loopVars
<1> QED BY <1>5, <1>6, <1>7, <1>8, <1>10, <1>11, <1>12, <1>13, <1>14, <1>15
           DEF Next, MasterStep

\* What a read queues and leaves current, on a pipe that is watched.
LEMMA ReadCurrent ==
  ASSUME PipeInv, CurrentInv, NEW p \in Pipes, MasterPipe(p)
  PROVE  LET f == Fill(frame[p]) IN
         /\ f \in PipeFrameType /\ BufferInv(f)
         /\ Parse(f).current = SessionAfter(f, 0, NoSession, f.read)
         /\ Kept(f) \in PipeFrameType /\ Faithful(Kept(f))
         /\ Kept(f).sent = f.sent /\ Kept(f).read = f.read
<1> DEFINE f == Fill(frame[p])
<1>1. frame[p] \in PipeFrameType /\ BufferInv(frame[p])
  BY DEF PipeInv, FramesInv
<1>2. p \in watched
  BY DEF MasterPipe, HandleEvent, CurrentInv
<1>3. Parse(f).current = SessionAfter(f, 0, NoSession, f.read)
  BY <1>1, <1>2, ReadFaithful DEF CurrentInv
<1>4. f \in PipeFrameType /\ BufferInv(f)
  BY <1>1, FillFacts
<1> HIDE DEF f
<1>5. /\ Kept(f) \in PipeFrameType /\ Kept(f).sent = f.sent /\ Kept(f).read = f.read
      /\ f.read \in Nat
  BY <1>4, KeptFacts DEF PipeFrameType
<1>6. Kept(f).current = Parse(f).current
  <2>1. Parse(f) \in PipeFrameType /\ BufferInv(Parse(f))
    BY <1>4, ParseFacts
  <2>2. Clear(Parse(f)).current = Parse(f).current
    BY <2>1, ClearFacts
  <2> QED BY <2>2 DEF Kept
<1>7. SessionAfter(Kept(f), 0, NoSession, f.read) = SessionAfter(f, 0, NoSession, f.read)
  BY <1>5, SameSession
<1> QED BY <1>3, <1>4, <1>5, <1>6, <1>7 DEF Faithful, f

\* Every step keeps the current session what was printed.
LEMMA NextCurrent ==
  ASSUME PipeInv, CurrentInv, [Next]_vars
  PROVE  CurrentInv'
<1>1. ASSUME NEW q \in Pipes, q \in watched' PROVE Faithful(frame'[q])
  <2>1. /\ q \in watched /\ Faithful(frame[q])
        /\ frame \in [Pipes -> PipeFrameType] /\ BufferInv(frame[q])
        /\ frame[q] \in PipeFrameType
    BY <1>1, NextWatched DEF CurrentInv, PipeInv, FramesInv
  <2>2. CASE frame'[q] = frame[q]
    BY <2>1, <2>2
  <2>3. ASSUME NEW p \in Pipes, NEW g, frame' = [frame EXCEPT ![p] = g], p # q
        PROVE  frame'[q] = frame[q]
    BY <2>1, <2>3
  <2>4. ASSUME NEW u \in Units, Prints(q, u) PROVE Faithful(frame'[q])
    <3> DEFINE f == frame[q]
               g == [f EXCEPT !.sent = Append(f.sent, u)]
    <3>1. /\ g.sent = Append(f.sent, u) /\ g.read = f.read /\ g.current = f.current
      BY <2>1, PrintFacts
    <3>2. frame'[q] = g
      BY <2>1, <2>4 DEF Prints
    <3> HIDE DEF g
    <3>3. /\ f.sent \in Seq(Units) /\ f.read \in Nat /\ Len(f.sent) \in Nat
          /\ f.read <= Len(f.sent)
      BY <2>1 DEF PipeFrameType, BufferInv
    <3> HIDE DEF f
    <3>4. \A i \in 1 .. f.read : f.sent[i] = g.sent[i]
      BY <3>1, <3>3
    <3>5. SessionAfter(f, 0, NoSession, f.read) = SessionAfter(g, 0, NoSession, f.read)
      <4>1. f.read \in Nat
        BY <3>3
      <4> QED BY <3>4, <4>1, SameSession
    <3> QED BY <2>1, <3>1, <3>2, <3>5 DEF Faithful, f
  <2>5. ASSUME WorkerEnds(q) PROVE Faithful(frame'[q])
    <3> DEFINE f == frame[q]
               g == [f EXCEPT !.closed = TRUE]
    <3>1. frame'[q] = g
      BY <2>1, <2>5 DEF WorkerEnds
    <3>2. g.sent = f.sent /\ g.read = f.read /\ g.current = f.current /\ f.read \in Nat
      BY <2>1 DEF PipeFrameType
    <3> HIDE DEF g
    <3>3. SessionAfter(f, 0, NoSession, f.read) = SessionAfter(g, 0, NoSession, f.read)
      BY <3>2, SameSession
    <3> QED BY <2>1, <3>1, <3>2, <3>3 DEF Faithful
  <2>6. ASSUME MasterPipe(q) PROVE Faithful(frame'[q])
    <3>1. frame' = [frame EXCEPT ![q] = Kept(Fill(frame[q]))]
      BY <2>6, PipeReads
    <3>2. frame'[q] = Kept(Fill(frame[q]))
      BY <2>1, <3>1
    <3> QED BY <2>6, <3>2, ReadCurrent
  <2>7. ASSUME MasterPipeFails(q) PROVE FALSE
    BY <1>1, <2>7 DEF MasterPipeFails
  <2>8. ASSUME NEW p \in Pipes, p # q,
               \/ \E u \in Units : Prints(p, u)
               \/ WorkerEnds(p) \/ MasterPipe(p) \/ MasterPipeFails(p)
        PROVE  frame'[q] = frame[q]
    BY <2>1, <2>8 DEF Prints, WorkerEnds, MasterPipe, MasterPipeFails
  <2>9. CASE UNCHANGED vars
    BY <2>2, <2>9 DEF vars
  <2> QED BY <2>2, <2>4, <2>5, <2>6, <2>7, <2>8, <2>9, OtherPipes
<1> QED BY <1>1, NextWatched DEF CurrentInv

\* The inductive invariant of what is current.
LEMMA CurrentInvariance == Spec => []CurrentInv
<1>1. Init => CurrentInv
  <2> SUFFICES ASSUME Init PROVE CurrentInv
    OBVIOUS
  <2>1. /\ ready = {} /\ readable = {} /\ writable = {}
        /\ \A p \in Pipes : frame[p] = NewFrame
    BY DEF Init
  <2>2. Faithful(NewFrame)
    <3>1. NewFrame.current = NoSession /\ NewFrame.read = 0
      BY DEF NewFrame
    <3> QED BY <3>1 DEF Faithful, SessionAfter
  <2> QED BY <2>1, <2>2 DEF CurrentInv
<1> QED BY <1>1, NextCurrent, PipeInvariance, PTL DEF Spec

\* The session current on a pipe that is watched is the one that all that was
\* read of it makes current (pipeframe.rs:34-94).
THEOREM CurrentIsPrinted == Spec => []CurrentAsPrinted
<1>1. TypeOK /\ PipeInv /\ CurrentInv => CurrentAsPrinted
  <2> SUFFICES ASSUME TypeOK, PipeInv, CurrentInv, NEW p \in watched
               PROVE  frame[p].current = PrintedIn(p, frame[p].read + 1)
    BY DEF CurrentAsPrinted
  <2>1. p \in Pipes /\ frame[p] \in PipeFrameType
    BY DEF TypeOK
  <2>2. (frame[p].read + 1) - 1 = frame[p].read
    BY <2>1 DEF PipeFrameType
  <2> QED BY <2>1, <2>2 DEF CurrentInv, Faithful, PrintedIn
<1> QED BY <1>1, OutputTypes, PipeInvariance, CurrentInvariance, PTL

\* Lines of a read that no marker line follows go to the session they were
\* printed for (pipeframe.rs:48-84, mod.rs:384-391).
THEOREM TailsReachTheirSession == Spec => TailReachesItsSession
<1>1. ASSUME PipeInv, CurrentInv, Next, NEW s \in Sessions,
             Len(queue'[s]) > Len(queue[s])
      PROVE  LET b == queue'[s][Len(queue'[s])]  f == frame'[b.pipe] IN
             \A j \in b.lines :
               (\A k \in j + 1 .. f.read : ~IsMarker(f, 0, k)) =>
                 SessionAfter(f, 0, NoSession, j) = s
  <2>1. queue \in [Sessions -> Seq(Batches)] /\ Len(queue[s]) \in Nat
    BY <1>1 DEF PipeInv
  <2>2. queue' # queue
    BY <1>1, <2>1
  <2>3. PICK p \in Pipes : MasterPipe(p)
    BY <1>1, <2>2, OtherPipes DEF Prints, WorkerEnds, MasterPipeFails, streamVars
  <2> DEFINE g == Fill(frame[p])
             h == Kept(g)
             t == Parse(g).current
             b == [pipe |-> p, from |-> g.from, lines |-> Saved(g)]
  <2>4. /\ frame' = [frame EXCEPT ![p] = h] /\ t \in Sessions
        /\ queue' = [queue EXCEPT ![t] = Append(queue[t], b)]
    BY <1>1, <2>2, <2>3, PipeReads
  <2>5. /\ g \in PipeFrameType /\ BufferInv(g)
        /\ t = SessionAfter(g, 0, NoSession, g.read)
        /\ h \in PipeFrameType /\ Faithful(h) /\ h.sent = g.sent /\ h.read = g.read
    BY <1>1, <2>3, ReadCurrent
  <2>6. frame'[p] = h
    BY <1>1, <2>4 DEF PipeInv
  <2> HIDE DEF g, h, b, t
  <2>7. s = t /\ queue'[s][Len(queue'[s])] = b
    <3>1. s = t
      BY <1>1, <2>1, <2>4
    <3>2. queue'[s] = Append(queue[s], b)
      BY <2>1, <2>4, <3>1
    <3> QED BY <2>1, <3>1, <3>2
  <2>8. b.pipe = p /\ b.lines = Saved(g)
    BY DEF b
  <2>9. ASSUME NEW j \in Saved(g), \A k \in j + 1 .. h.read : ~IsMarker(h, 0, k)
        PROVE  SessionAfter(h, 0, NoSession, j) = s
    <3>1. g.read \in Nat /\ g.from \in Nat /\ j \in 1 .. g.read
      BY <2>5, LinesInBuffer DEF PipeFrameType
    <3>2. SessionAfter(h, 0, NoSession, h.read) = SessionAfter(h, 0, NoSession, j)
      BY <2>5, <2>9, <3>1, NoMarkerNoChange
    <3>3. SessionAfter(g, 0, NoSession, g.read) = SessionAfter(h, 0, NoSession, g.read)
      BY <2>5, <3>1, SameSession
    <3> QED BY <2>5, <2>7, <3>2, <3>3
  <2> QED BY <2>6, <2>7, <2>8, <2>9
<1>2. PipeInv /\ CurrentInv /\ [Next]_vars =>
        [\A s \in Sessions : Len(queue'[s]) > Len(queue[s]) =>
           LET b == queue'[s][Len(queue'[s])]  f == frame'[b.pipe] IN
           \A j \in b.lines :
             (\A k \in j + 1 .. f.read : ~IsMarker(f, 0, k)) =>
               SessionAfter(f, 0, NoSession, j) = s]_vars
  BY <1>1
<1> QED BY <1>2, PipeInvariance, CurrentInvariance, PTL DEF Spec, TailReachesItsSession
=============================================================================
