------------------------------ MODULE FdStream ------------------------------
(***************************************************************************)
(* The unix stream socket from the master to one worker, over which        *)
(* fd_queue passes file descriptors next to the bytes of request headers.  *)
(* A request is an 8 byte header in the byte stream and a descriptor in    *)
(* the queue beside it: the two halves travel separately and nothing in    *)
(* the bytes says which descriptor a header belongs to.  The socket is a   *)
(* record; what has been put in is never taken out, the position of each   *)
(* reader and writer is a count into it:                                   *)
(*   hdrs    clients whose headers master appended to its outbuffer        *)
(*   fds     clients whose descriptors master enqueued                     *)
(*   wrote   bytes master has written to the socket                        *)
(*   at      at[i] is the byte offset of the write that carried fds[i]     *)
(*   full    the last write was partial and no room has been reported since *)
(*   read    bytes the worker has read from the socket                     *)
(*   got     descriptors the worker's reads have received                  *)
(*   parsed  headers the worker has taken out of its inbuffer              *)
(*   popped  descriptors the worker has dequeued                           *)
(*   taken   the (header, fd) pairs pushed to the worker's new_msgs        *)
(***************************************************************************)
EXTENDS Integers, Sequences

CONSTANT FdQueueSize    \* descriptors fd_queue holds before enqueue fails

ASSUME FdQueueSizeAssumption == FdQueueSize \in Nat \ {0}

\* protocol::REQUEST_HEADER_SIZE
HeaderSize == 8

\* Every state a socket between clients' requests can be recorded in.
FdStreamType(Client) ==
  [hdrs: Seq(Client), fds: Seq(Client), wrote: Nat, at: Seq(Nat),
   full: BOOLEAN, read: Nat, got: Nat, parsed: Nat, popped: Nat,
   taken: Seq([header: Client, fd: Client])]

NewStream ==
  [hdrs |-> <<>>, fds |-> <<>>, wrote |-> 0, at |-> <<>>, full |-> FALSE,
   read |-> 0, got |-> 0, parsed |-> 0, popped |-> 0, taken |-> <<>>]

-----------------------------------------------------------------------------
(* Master's end *)

\* Bytes in master's outbuffer.
OutLen(s) == HeaderSize * Len(s.hdrs) - s.wrote

HasData(s) == OutLen(s) > 0

\* Descriptors fd_queue still accepts: enqueued ones leave with a write.
Room(s) == FdQueueSize - (Len(s.fds) - Len(s.at))

\* What is left of the requests master pops for this worker: it sends the
\* descriptor first, and a request that finds the queue full is given up.
Accepted(s, reqs) == SubSeq(reqs, 1, IF Len(reqs) < Room(s) THEN Len(reqs)
                                                            ELSE Room(s))

\* Mutant: the header is appended although enqueueing its descriptor failed.
HeaderKeptWhenFull(s, reqs) ==
  [s EXCEPT !.fds = @ \o Accepted(s, reqs), !.hdrs = @ \o reqs]

\* All pending requests go to the one socket.
Dispatch(s, reqs) ==
  [s EXCEPT !.fds = @ \o Accepted(s, reqs), !.hdrs = @ \o Accepted(s, reqs)]

\* Mutant: the descriptors go with the last byte of a write.
DescriptorsTrailWrite(s, n) ==
  [s EXCEPT !.wrote = @ + n,
            !.at    = [i \in 1 .. Len(s.fds) |->
                         IF i \in DOMAIN s.at THEN s.at[i] ELSE s.wrote + n],
            !.full  = n < OutLen(s)]

\* A write of n bytes carries every queued descriptor, at its first byte.  It
\* stops short of the outbuffer only when the socket has filled up.
Write(s, n) ==
  [s EXCEPT !.wrote = @ + n,
            !.at    = [i \in 1 .. Len(s.fds) |->
                         IF i \in DOMAIN s.at THEN s.at[i] ELSE s.wrote],
            !.full  = n < OutLen(s)]

-----------------------------------------------------------------------------
(* The worker's end *)

\* Bytes in the socket, and in the worker's inbuffer.
Unread(s) == s.wrote - s.read
InLen(s)  == s.read - HeaderSize * s.parsed

\* A read returns some of the bytes in the socket together with exactly the
\* k descriptors whose write it has reached.  The kernel does not glue two
\* writes that both carry descriptors into one read.
ReadReturns(s, n, k) ==
  /\ n \in 1 .. Unread(s)
  /\ k \in 0 .. Len(s.at) - s.got
  /\ \A i \in 1 .. Len(s.at) : s.at[i] < s.read + n <=> i <= s.got + k
  /\ \A i, j \in s.got + 1 .. s.got + k : s.at[i] = s.at[j]

\* Left to itself a read stops at the end of what has been written or where
\* the next write that carries descriptors begins.
ReadStops(s) ==
  {n \in 1 .. Unread(s) :
     \/ n = Unread(s)
     \/ \E i \in s.got + 1 .. Len(s.at) : s.read + n = s.at[i]}

\* What a full socket may be after a read of n bytes: the kernel reports room
\* only when enough has been freed, which a read that leaves bytes need not do.
FullAfter(s, n) == IF s.full /\ n < Unread(s) THEN BOOLEAN ELSE {FALSE}

Receive(s, n, k, full) ==
  [s EXCEPT !.read = @ + n, !.got = @ + k, !.full = full]

\* Mutant: a descriptor is dequeued before its header is whole.
DequeueTooEarly(s) ==
  IF s.got > s.popped
  THEN IF InLen(s) >= HeaderSize
       THEN [s EXCEPT !.parsed = @ + 1, !.popped = @ + 1,
                      !.taken = Append(@, [header |-> s.hdrs[s.parsed + 1],
                                           fd     |-> s.fds[s.popped + 1]])]
       ELSE [s EXCEPT !.popped = @ + 1]
  ELSE s

\* The worker's parse loop ends in an unconditional break: one header, with
\* one descriptor, per read, and none when no descriptor is there.
TakeOne(s) ==
  IF InLen(s) >= HeaderSize /\ s.got > s.popped
  THEN [s EXCEPT !.parsed = @ + 1, !.popped = @ + 1,
                 !.taken = Append(@, [header |-> s.hdrs[s.parsed + 1],
                                      fd     |-> s.fds[s.popped + 1]])]
  ELSE s

-----------------------------------------------------------------------------
(* Properties of one socket *)

\* The worker never pairs a header with another client's descriptor.
Paired(s) == \A i \in 1 .. Len(s.taken) : s.taken[i].header = s.taken[i].fd

\* A header that is whole in the inbuffer finds its descriptor in the queue.
DescriptorReady(s) == InLen(s) >= HeaderSize => s.got > s.popped

\* The reader is never ahead of the writer, on either of the two paths.
CountsInOrder(s) ==
  /\ s.popped = s.parsed /\ s.parsed = Len(s.taken)
  /\ s.parsed <= s.got /\ s.got <= Len(s.at)
  /\ Len(s.at) <= Len(s.fds)
  /\ HeaderSize * s.parsed <= s.read /\ s.read <= s.wrote
  /\ s.wrote <= HeaderSize * Len(s.hdrs)

\* The i-th descriptor leaves no later than the first byte of the i-th
\* header, and whatever is still queued has no byte of its header written.
DescriptorsLead(s) ==
  /\ \A i \in 1 .. Len(s.at) : s.at[i] <= HeaderSize * (i - 1)
  /\ Len(s.at) < Len(s.fds) => s.wrote <= HeaderSize * Len(s.at)

\* The descriptors received are exactly those whose write has been reached.
ReceivedExactly(s) ==
  \A i \in 1 .. Len(s.at) : s.at[i] < s.read <=> i <= s.got

\* What has been taken is what was sent, in order.
TakenInOrder(s) ==
  \A i \in 1 .. Len(s.taken) :
    s.taken[i].header = s.hdrs[i] /\ s.taken[i].fd = s.fds[i]

\* The inductive invariant of the socket.
StreamInv(s) ==
  /\ s.hdrs = s.fds
  /\ CountsInOrder(s)
  /\ DescriptorsLead(s)
  /\ ReceivedExactly(s)
  /\ TakenInOrder(s)
=============================================================================
