--------------------------- MODULE FdStreamProofs ---------------------------
(***************************************************************************)
(* Lemmas about one worker socket: each operation on it keeps its type and *)
(* its inductive invariant, and the invariant gives the two properties.    *)
(***************************************************************************)
EXTENDS FdStream, SequenceTheorems, TLAPS

\* The record of a new socket is a socket in order.
LEMMA NewStreamInv ==
  ASSUME NEW Client
  PROVE  NewStream \in FdStreamType(Client) /\ StreamInv(NewStream)
  BY DEF NewStream, FdStreamType, StreamInv, CountsInOrder, DescriptorsLead,
         ReceivedExactly, TakenInOrder, HeaderSize

\* The fields of a socket, as the leaves below need them.
Fields(Client, s) ==
  /\ s.hdrs \in Seq(Client) /\ s.fds \in Seq(Client) /\ s.at \in Seq(Nat)
  /\ s.taken \in Seq([header: Client, fd: Client])
  /\ s.full \in BOOLEAN
  /\ s.wrote \in Nat /\ s.read \in Nat /\ s.got \in Nat
  /\ s.parsed \in Nat /\ s.popped \in Nat
  /\ Len(s.hdrs) \in Nat /\ Len(s.fds) \in Nat /\ Len(s.at) \in Nat
  /\ Len(s.taken) \in Nat
  /\ \A i \in 1 .. Len(s.at) : s.at[i] \in Nat

\* The fields of a socket, one by one: Fields is FdStreamType taken apart.
LEMMA FieldTypes ==
  ASSUME NEW Client, NEW s \in FdStreamType(Client)
  PROVE  Fields(Client, s)
  BY DEF FdStreamType, Fields

\* A socket stays one when a field gets another value of the field's type.
LEMMA UpdateTypes ==
  ASSUME NEW Client, NEW s \in FdStreamType(Client)
  PROVE  /\ \A v \in Seq(Client) : [s EXCEPT !.hdrs = v] \in FdStreamType(Client)
         /\ \A v \in Seq(Client) : [s EXCEPT !.fds = v] \in FdStreamType(Client)
         /\ \A v \in Nat : [s EXCEPT !.wrote = v] \in FdStreamType(Client)
         /\ \A v \in Seq(Nat) : [s EXCEPT !.at = v] \in FdStreamType(Client)
         /\ \A v \in BOOLEAN : [s EXCEPT !.full = v] \in FdStreamType(Client)
         /\ \A v \in Nat : [s EXCEPT !.read = v] \in FdStreamType(Client)
         /\ \A v \in Nat : [s EXCEPT !.got = v] \in FdStreamType(Client)
         /\ \A v \in Nat : [s EXCEPT !.parsed = v] \in FdStreamType(Client)
         /\ \A v \in Nat : [s EXCEPT !.popped = v] \in FdStreamType(Client)
         /\ \A v \in Seq([header: Client, fd: Client]) :
              [s EXCEPT !.taken = v] \in FdStreamType(Client)
  BY DEF FdStreamType

\* The invariant gives pairing by value: a header is taken with the
\* descriptor of the same client (Inner::read of the worker).
LEMMA InvImpliesPaired ==
  ASSUME NEW Client, NEW s \in FdStreamType(Client), StreamInv(s)
  PROVE  Paired(s)
<1> SUFFICES ASSUME NEW i \in 1 .. Len(s.taken)
             PROVE  s.taken[i].header = s.taken[i].fd
  BY DEF Paired
<1> QED BY DEF StreamInv, TakenInOrder

\* And a whole header in the inbuffer has its descriptor at hand.
LEMMA InvImpliesReady ==
  ASSUME NEW Client, NEW s \in FdStreamType(Client), StreamInv(s)
  PROVE  DescriptorReady(s)
<1> SUFFICES ASSUME s.read - HeaderSize * s.parsed >= HeaderSize
             PROVE  s.got > s.popped
  BY DEF DescriptorReady, InLen
<1>t. Fields(Client, s)
  BY FieldTypes
<1>1. s.hdrs = s.fds BY DEF StreamInv
<1>2. Len(s.fds) > s.parsed
  BY <1>t, <1>1 DEF Fields, StreamInv, CountsInOrder, HeaderSize
<1>3. Len(s.at) > s.parsed
  BY <1>t, <1>2 DEF Fields, StreamInv, CountsInOrder, DescriptorsLead, HeaderSize
<1>4. s.parsed + 1 \in 1 .. Len(s.at) /\ s.at[s.parsed + 1] \in Nat
  BY <1>t, <1>3 DEF Fields
<1>5. s.at[s.parsed + 1] <= HeaderSize * s.parsed
  BY <1>t, <1>4 DEF Fields, StreamInv, DescriptorsLead, HeaderSize
<1>6. s.at[s.parsed + 1] < s.read
  <2>1. s.read \in Nat /\ s.parsed \in Nat
    BY <1>t DEF Fields
  <2> QED BY <2>1, <1>4, <1>5 DEF HeaderSize
<1>7. s.parsed + 1 <= s.got
  BY <1>4, <1>6 DEF StreamInv, ReceivedExactly
<1>8. s.popped = s.parsed /\ s.got \in Nat /\ s.parsed \in Nat
  <2>1. s.popped = s.parsed
    BY DEF StreamInv, CountsInOrder
  <2> QED BY <1>t, <2>1 DEF Fields
<1> QED BY <1>7, <1>8

\* What dispatch accepts of the requests is a sequence of clients.
LEMMA AcceptedType ==
  ASSUME NEW Client, NEW s \in FdStreamType(Client), NEW reqs \in Seq(Client)
  PROVE  Accepted(s, reqs) \in Seq(Client)
<1> DEFINE m == IF Len(reqs) < Room(s) THEN Len(reqs) ELSE Room(s)
<1>t. Fields(Client, s)
  BY FieldTypes
<1>1. m \in Int /\ m <= Len(reqs)
  <2>1. Len(reqs) \in Nat
    BY LenProperties
  <2>2. Room(s) \in Int
    BY FdQueueSizeAssumption, <1>t DEF Fields, Room
  <2> QED BY <2>1, <2>2
<1>2. \A i \in 1 .. m : reqs[i] \in Client
  BY <1>1, LenProperties, ElementOfSeq
<1> HIDE DEF m
<1>3. SubSeq(reqs, 1, m) \in Seq(Client)
  BY <1>1, <1>2, SubSeqProperties
<1> QED BY <1>3 DEF Accepted, m

\* WorkerStreams.dispatch: descriptors and headers are appended together.
LEMMA DispatchInv ==
  ASSUME NEW Client, NEW s \in FdStreamType(Client),
         StreamInv(s), NEW reqs \in Seq(Client)
  PROVE  Dispatch(s, reqs) \in FdStreamType(Client) /\ StreamInv(Dispatch(s, reqs))
<1> DEFINE a == Accepted(s, reqs)
           t == Dispatch(s, reqs)
<1>t. Fields(Client, s)
  BY FieldTypes
<1>1. a \in Seq(Client)
  BY AcceptedType
<1>2. t \in FdStreamType(Client)
  <2> DEFINE r == [s EXCEPT !.fds = s.fds \o a]
             q == [r EXCEPT !.hdrs = s.hdrs \o a]
  <2>1. s.fds \o a \in Seq(Client) /\ s.hdrs \o a \in Seq(Client)
    BY <1>1, <1>t, ConcatProperties DEF Fields
  <2>2. r \in FdStreamType(Client)
    BY <2>1, UpdateTypes
  <2>3. t = q
    BY DEF Dispatch
  <2> HIDE DEF r, a, t
  <2>4. q \in FdStreamType(Client)
    BY <2>1, <2>2, UpdateTypes
  <2> QED BY <2>3, <2>4
<1>3. /\ t.hdrs = s.hdrs \o a /\ t.fds = s.fds \o a
      /\ t.wrote = s.wrote /\ t.at = s.at /\ t.read = s.read /\ t.got = s.got
      /\ t.parsed = s.parsed /\ t.popped = s.popped /\ t.taken = s.taken
  BY DEF Dispatch, FdStreamType
<1>4. /\ Len(a) \in Nat /\ Len(t.fds) = Len(s.fds) + Len(a)
      /\ \A i \in 1 .. Len(s.fds) : t.fds[i] = s.fds[i]
  BY <1>1, <1>3, <1>t, ConcatProperties, LenProperties DEF Fields
<1>5. s.hdrs = s.fds /\ t.hdrs = t.fds
  BY <1>3 DEF StreamInv
<1> HIDE DEF a, t
<1>6. CountsInOrder(t)
  BY <1>3, <1>4, <1>5, <1>t DEF Fields, StreamInv, CountsInOrder, HeaderSize
<1>7. DescriptorsLead(t)
  <2>1. \A i \in 1 .. Len(t.at) : t.at[i] <= HeaderSize * (i - 1)
    BY <1>3 DEF StreamInv, DescriptorsLead
  <2>2. s.wrote <= HeaderSize * Len(s.at)
    BY <1>5, <1>t DEF Fields, StreamInv, DescriptorsLead, CountsInOrder, HeaderSize
  <2> QED BY <1>3, <2>1, <2>2 DEF DescriptorsLead
<1>8. ReceivedExactly(t)
  BY <1>3 DEF StreamInv, ReceivedExactly
<1>9. TakenInOrder(t)
  <2>1. Len(s.taken) \in Nat /\ Len(s.fds) \in Nat /\ Len(s.taken) <= Len(s.fds)
    BY <1>t DEF Fields, StreamInv, CountsInOrder
  <2> QED BY <1>3, <1>4, <2>1 DEF StreamInv, TakenInOrder
<1> QED BY <1>2, <1>5, <1>6, <1>7, <1>8, <1>9 DEF StreamInv, t

\* WorkerStream.write: the write takes every descriptor that is still queued
\* with its first byte, which is not beyond the first of them's header.
LEMMA WriteInv ==
  ASSUME NEW Client, NEW s \in FdStreamType(Client),
         StreamInv(s), NEW n \in 1 .. OutLen(s)
  PROVE  Write(s, n) \in FdStreamType(Client) /\ StreamInv(Write(s, n))
<1> DEFINE t == Write(s, n)
           at == [i \in 1 .. Len(s.fds) |-> IF i \in DOMAIN s.at THEN s.at[i]
                                                                  ELSE s.wrote]
<1>t. Fields(Client, s)
  BY FieldTypes
<1>1. s.hdrs = s.fds
  BY DEF StreamInv
<1>2. n \in Nat /\ n >= 1 /\ s.wrote + n <= HeaderSize * Len(s.fds)
  BY <1>1, <1>t DEF Fields, OutLen, HeaderSize
<1>3. DOMAIN s.at = 1 .. Len(s.at) /\ Len(s.at) <= Len(s.fds)
  BY <1>t, LenProperties DEF Fields, StreamInv, CountsInOrder
<1>4. at \in Seq(Nat) /\ Len(at) = Len(s.fds)
  <2>1. \A i \in 1 .. Len(s.fds) : at[i] \in Nat
    BY <1>3, <1>t DEF Fields
  <2>2. at \in [1 .. Len(s.fds) -> Nat]
    BY <2>1
  <2> QED BY <2>2, <1>t DEF Fields
<1>5. /\ \A i \in 1 .. Len(s.at) : at[i] = s.at[i]
      /\ \A i \in 1 .. Len(s.fds) : i \notin 1 .. Len(s.at) => at[i] = s.wrote
  BY <1>3, <1>t DEF Fields
<1>6. /\ t.hdrs = s.hdrs /\ t.fds = s.fds /\ t.wrote = s.wrote + n /\ t.at = at
      /\ t.read = s.read /\ t.got = s.got /\ t.parsed = s.parsed
      /\ t.popped = s.popped /\ t.taken = s.taken
  BY DEF Write, FdStreamType
<1>7. t \in FdStreamType(Client)
  <2> DEFINE r == [s EXCEPT !.wrote = s.wrote + n]
             q == [r EXCEPT !.at = at]
             b == n < OutLen(s)
             p == [q EXCEPT !.full = b]
  <2>0. s.wrote + n \in Nat /\ b \in BOOLEAN
    BY <1>2, <1>t DEF Fields
  <2>1. r \in FdStreamType(Client)
    BY <2>0, UpdateTypes
  <2>2. t = p
    BY DEF Write
  <2> HIDE DEF r, at, t, b
  <2>3. q \in FdStreamType(Client)
    BY <1>4, <2>1, UpdateTypes
  <2> HIDE DEF q
  <2>4. p \in FdStreamType(Client)
    BY <2>0, <2>3, UpdateTypes
  <2> QED BY <2>2, <2>4
<1> HIDE DEF t, at
<1>8. CountsInOrder(t)
  BY <1>1, <1>2, <1>3, <1>4, <1>6, <1>t
     DEF Fields, StreamInv, CountsInOrder, HeaderSize
<1>9. DescriptorsLead(t)
  <2>1. ASSUME NEW i \in 1 .. Len(t.at)
        PROVE  t.at[i] <= HeaderSize * (i - 1)
    <3>1. CASE i \in 1 .. Len(s.at)
      BY <3>1, <1>5, <1>6 DEF StreamInv, DescriptorsLead
    <3>2. CASE i \notin 1 .. Len(s.at)
      <4>1. i \in Nat /\ i > Len(s.at) /\ Len(s.at) < Len(s.fds)
        <5>1. Len(t.at) = Len(s.fds) /\ Len(s.at) \in Nat /\ Len(s.fds) \in Nat
          BY <1>4, <1>6, <1>t DEF Fields
        <5> QED BY <3>2, <5>1
      <4>2. s.wrote <= HeaderSize * Len(s.at)
        BY <4>1 DEF StreamInv, DescriptorsLead
      <4>3. t.at[i] = s.wrote
        BY <3>2, <1>4, <1>5, <1>6
      <4> QED BY <4>1, <4>2, <4>3, <1>t DEF Fields, HeaderSize
    <3> QED BY <3>1, <3>2
  <2> QED BY <2>1, <1>4, <1>6, <1>t DEF Fields, DescriptorsLead
<1>10. ReceivedExactly(t)
  <2> SUFFICES ASSUME NEW i \in 1 .. Len(s.fds)
               PROVE  at[i] < s.read <=> i <= s.got
    BY <1>4, <1>6 DEF ReceivedExactly
  <2>1. CASE i \in 1 .. Len(s.at)
    BY <2>1, <1>5 DEF StreamInv, ReceivedExactly
  <2>2. CASE i \notin 1 .. Len(s.at)
    BY <2>2, <1>5, <1>t DEF Fields, StreamInv, CountsInOrder
  <2> QED BY <2>1, <2>2
<1>11. TakenInOrder(t)
  BY <1>6 DEF StreamInv, TakenInOrder
<1> QED BY <1>1, <1>6, <1>7, <1>8, <1>9, <1>10, <1>11 DEF StreamInv, t

\* recvmsg: what one read of the worker returns.
LEMMA ReceiveInv ==
  ASSUME NEW Client, NEW s \in FdStreamType(Client), StreamInv(s),
         NEW n, NEW k, NEW b \in BOOLEAN, ReadReturns(s, n, k)
  PROVE  /\ Receive(s, n, k, b) \in FdStreamType(Client)
         /\ StreamInv(Receive(s, n, k, b))
<1> DEFINE t == Receive(s, n, k, b)
<1>t. Fields(Client, s)
  BY FieldTypes
<1>1. n \in Nat /\ k \in Nat /\ s.read + n <= s.wrote /\ s.got + k <= Len(s.at)
  BY <1>t DEF Fields, ReadReturns, Unread, StreamInv, CountsInOrder
<1>2. /\ t.hdrs = s.hdrs /\ t.fds = s.fds /\ t.wrote = s.wrote /\ t.at = s.at
      /\ t.read = s.read + n /\ t.got = s.got + k /\ t.parsed = s.parsed
      /\ t.popped = s.popped /\ t.taken = s.taken
  BY DEF Receive, FdStreamType
<1>3. t \in FdStreamType(Client)
  <2> DEFINE r == [s EXCEPT !.read = s.read + n]
             q == [r EXCEPT !.got = s.got + k]
             p == [q EXCEPT !.full = b]
  <2>0. s.read + n \in Nat /\ s.got + k \in Nat
    <3>1. s.read \in Nat /\ s.got \in Nat
      BY <1>t DEF Fields
    <3> QED BY <1>1, <3>1
  <2>1. r \in FdStreamType(Client)
    BY <2>0, UpdateTypes
  <2>2. t = p
    BY DEF Receive
  <2> HIDE DEF r, t
  <2>3. q \in FdStreamType(Client)
    BY <2>0, <2>1, UpdateTypes
  <2> HIDE DEF q
  <2>4. p \in FdStreamType(Client)
    BY <2>3, UpdateTypes
  <2> QED BY <2>2, <2>4
<1> HIDE DEF t
<1>4. CountsInOrder(t)
  BY <1>1, <1>2, <1>t DEF Fields, StreamInv, CountsInOrder, HeaderSize
<1>5. DescriptorsLead(t) /\ TakenInOrder(t)
  BY <1>2 DEF StreamInv, DescriptorsLead, TakenInOrder
<1>6. ReceivedExactly(t)
  BY <1>2 DEF ReceivedExactly, ReadReturns
<1> QED BY <1>2, <1>3, <1>4, <1>5, <1>6 DEF StreamInv, t

\* Inner::read of the worker, after the bytes are in: one header at most is
\* taken, with the descriptor at the front of the queue.
LEMMA TakeInv ==
  ASSUME NEW Client, NEW s \in FdStreamType(Client), StreamInv(s)
  PROVE  TakeOne(s) \in FdStreamType(Client) /\ StreamInv(TakeOne(s))
<1> DEFINE t == TakeOne(s)
           p == [header |-> s.hdrs[s.parsed + 1], fd |-> s.fds[s.popped + 1]]
<1>t. Fields(Client, s)
  BY FieldTypes
<1>1. CASE ~(InLen(s) >= HeaderSize /\ s.got > s.popped)
  BY <1>1 DEF TakeOne
<1>2. CASE InLen(s) >= HeaderSize /\ s.got > s.popped
  <2>1. /\ s.hdrs = s.fds /\ s.popped = s.parsed /\ s.parsed = Len(s.taken)
        /\ s.parsed + 1 \in 1 .. Len(s.fds)
        /\ HeaderSize * (s.parsed + 1) <= s.read
    <3>1. s.hdrs = s.fds /\ s.popped = s.parsed /\ s.parsed = Len(s.taken)
      BY DEF StreamInv, CountsInOrder
    <3>2. s.parsed < Len(s.fds)
      BY <1>2, <1>t, <3>1 DEF Fields, StreamInv, CountsInOrder
    <3>3. HeaderSize * (s.parsed + 1) <= s.read
      BY <1>2, <1>t DEF Fields, InLen, HeaderSize
    <3> QED BY <1>t, <3>1, <3>2, <3>3 DEF Fields
  <2>2. p \in [header: Client, fd: Client]
    BY <2>1, <1>t, ElementOfSeq DEF Fields
  <2>3. /\ t.hdrs = s.hdrs /\ t.fds = s.fds /\ t.wrote = s.wrote /\ t.at = s.at
        /\ t.read = s.read /\ t.got = s.got /\ t.parsed = s.parsed + 1
        /\ t.popped = s.popped + 1 /\ t.taken = Append(s.taken, p)
    BY <1>2 DEF TakeOne, FdStreamType
  <2>4. t \in FdStreamType(Client)
    <3> DEFINE r == [s EXCEPT !.parsed = s.parsed + 1]
               q == [r EXCEPT !.popped = s.popped + 1]
               u == [q EXCEPT !.taken = Append(s.taken, p)]
    <3>1. Append(s.taken, p) \in Seq([header: Client, fd: Client])
      BY <2>2, <1>t, AppendProperties DEF Fields
    <3>0. s.parsed + 1 \in Nat /\ s.popped + 1 \in Nat
      BY <1>t DEF Fields
    <3>2. r \in FdStreamType(Client)
      BY <3>0, UpdateTypes
    <3>3. t = u
      BY <1>2 DEF TakeOne
    <3> HIDE DEF r, p, t
    <3>4. q \in FdStreamType(Client)
      BY <3>0, <3>2, UpdateTypes
    <3> HIDE DEF q
    <3>5. u \in FdStreamType(Client)
      BY <3>1, <3>4, UpdateTypes
    <3> QED BY <3>3, <3>5
  <2> HIDE DEF t
  <2>5. /\ Len(t.taken) = s.parsed + 1
        /\ \A i \in 1 .. Len(s.taken) : t.taken[i] = s.taken[i]
        /\ t.taken[s.parsed + 1] = p
    BY <2>1, <2>2, <2>3, <1>t, AppendProperties DEF Fields
  <2>6. CountsInOrder(t)
    BY <1>2, <2>1, <2>3, <2>5, <1>t DEF Fields, StreamInv, CountsInOrder, HeaderSize
  <2>7. DescriptorsLead(t) /\ ReceivedExactly(t)
    BY <2>3 DEF StreamInv, DescriptorsLead, ReceivedExactly
  <2>8. TakenInOrder(t)
    <3> SUFFICES ASSUME NEW i \in 1 .. Len(t.taken)
                 PROVE  t.taken[i].header = s.hdrs[i] /\ t.taken[i].fd = s.fds[i]
      BY <2>3 DEF TakenInOrder
    <3>1. CASE i \in 1 .. Len(s.taken)
      BY <3>1, <2>5 DEF StreamInv, TakenInOrder
    <3>2. CASE i = s.parsed + 1
      BY <3>2, <2>1, <2>5
    <3> QED BY <3>1, <3>2, <2>1, <2>5, <1>t DEF Fields
  <2> QED BY <2>1, <2>3, <2>4, <2>6, <2>7, <2>8 DEF StreamInv, t
<1> QED BY <1>1, <1>2
=============================================================================
