-------------------------- MODULE PipeFrameProofs --------------------------
(***************************************************************************)
(* Lemmas about the operators of PipeFrame, for any sessions and any size  *)
(* of the buffer: what a read, the loop over the buffer and clear leave of *)
(* a frame, what stands on a line when the buffer begins at a newline, and *)
(* which session is current where.                                         *)
(***************************************************************************)
EXTENDS PipeFrame, SequenceTheorems, WellFoundedInduction, TLAPS

-----------------------------------------------------------------------------
(* Bounds of sets of numbers *)

\* The lesser of two numbers.
LEMMA LesserOfTwo ==
  ASSUME NEW a \in Int, NEW b \in Int
  PROVE  Min({a, b}) = IF a <= b THEN a ELSE b
<1> DEFINE m == IF a <= b THEN a ELSE b
<1>1. m \in {a, b} /\ \A y \in {a, b} : m =< y
  OBVIOUS
<1>2. \A x \in {a, b} : (\A y \in {a, b} : x =< y) => x = m
  OBVIOUS
<1> QED BY <1>1, <1>2 DEF Min

\* A set of positions that is bounded and not empty has a last one.
LEMMA LastPosition ==
  ASSUME NEW n \in Nat, NEW S \in SUBSET (1 .. n), S # {}
  PROVE  Max(S) \in S /\ \A y \in S : Max(S) >= y
<1> DEFINE T == {n - x : x \in S}
           R == {ss \in Nat \X Nat : ss[1] < ss[2]}
<1>1. T \subseteq Nat /\ T # {}
  <2>1. \A x \in S : n - x \in Nat
    OBVIOUS
  <2> QED BY <2>1
<1>2. PICK t \in T : \A u \in T : t <= u
  <2>1. IsWellFoundedOn(R, Nat)
    BY NatLessThanWellFounded, Zenon DEF OpToRel
  <2> HIDE DEF R
  <2>2. PICK t \in T : \A u \in T : ~ (<<u, t>> \in R)
    BY <1>1, <2>1, WFMin, Zenon
  <2>3. \A u, v \in Nat : <<u, v>> \in R <=> u < v
    BY DEF R
  <2> HIDE DEF T
  <2>4. ASSUME NEW u \in T PROVE t <= u
    <3>1. u \in Nat /\ t \in Nat
      BY <1>1
    <3>2. ~(u < t)
      BY <2>2, <2>3, <3>1
    <3> QED BY <3>1, <3>2
  <2> QED BY <2>4
<1>3. PICK x \in S : t = n - x
  BY <1>2
<1>4. \A y \in S : n - y \in T
  OBVIOUS
<1>5. ASSUME NEW y \in S PROVE x >= y
  <2>1. t <= n - y
    BY <1>2, <1>4
  <2>2. x \in Int /\ y \in Int
    OBVIOUS
  <2> QED BY <1>3, <2>1, <2>2
<1>6. \E z \in S : \A y \in S : z >= y
  BY <1>5
<1> QED BY <1>6 DEF Max

-----------------------------------------------------------------------------
(* Reads *)

\* The buffer of a frame lies in what was printed, and begins with a newline
\* once clear has been called.
BufferInv(f) ==
  /\ f.from <= f.read /\ f.read <= Len(f.sent)
  /\ f.from # 0 => f.from + 1 <= f.read /\ f.sent[f.from + 1] = Newline

\* A read takes more of what was printed, and nothing else.
LEMMA FillFacts ==
  ASSUME NEW f \in PipeFrameType, BufferInv(f)
  PROVE  /\ Fill(f) \in PipeFrameType /\ BufferInv(Fill(f))
         /\ Fill(f).sent = f.sent /\ Fill(f).closed = f.closed
         /\ Fill(f).from = f.from /\ Fill(f).current = f.current
         /\ f.read <= Fill(f).read
<1> DEFINE n == Min({ReadUnits, Unread(f)})
<1>1. /\ f.sent \in Seq(Units) /\ Len(f.sent) \in Nat /\ f.closed \in BOOLEAN
      /\ f.from \in Nat /\ f.read \in Nat /\ f.current \in Sessions \cup {NoSession}
      /\ ReadUnits \in Nat
  BY PipeFrameAssumption DEF PipeFrameType
<1>2. Unread(f) \in Nat /\ Unread(f) = Len(f.sent) - f.read
  BY <1>1 DEF Unread, BufferInv
<1>3. n \in Nat /\ n <= Len(f.sent) - f.read
  BY <1>1, <1>2, LesserOfTwo
<1>4. Fill(f) = [f EXCEPT !.read = f.read + n]
  BY DEF Fill
<1> HIDE DEF n
<1>5. Fill(f) = [sent |-> f.sent, closed |-> f.closed, from |-> f.from,
                 read |-> f.read + n, current |-> f.current]
  BY <1>4 DEF PipeFrameType
<1> QED BY <1>1, <1>3, <1>5 DEF PipeFrameType, BufferInv

\* The session that marker lines make current is a session or none.
LEMMA SessionAfterType ==
  ASSUME NEW f \in PipeFrameType, NEW from \in Nat, NEW n \in Nat,
         NEW c \in Sessions \cup {NoSession}, n <= Len(f.sent) + 1
  PROVE  SessionAfter(f, from, c, n) \in Sessions \cup {NoSession}
<1>1. CASE \E j \in from + 1 .. n : IsMarker(f, from, j)
  <2> DEFINE S == {j \in from + 1 .. n : IsMarker(f, from, j)}
             last == CHOOSE j \in from + 1 .. n :
                       /\ IsMarker(f, from, j)
                       /\ \A k \in j + 1 .. n : ~IsMarker(f, from, k)
  <2>1. S \in SUBSET (1 .. n) /\ S # {}
    BY <1>1
  <2>2. Max(S) \in S /\ \A y \in S : Max(S) >= y
    BY <2>1, LastPosition
  <2>3. ASSUME NEW k \in Max(S) + 1 .. n PROVE ~IsMarker(f, from, k)
    <3>1. Max(S) \in from + 1 .. n
      BY <2>2
    <3>2. k \in from + 1 .. n /\ ~(Max(S) >= k)
      BY <3>1
    <3> QED BY <2>2, <3>2
  <2>4. last \in from + 1 .. n /\ IsMarker(f, from, last)
    BY <2>2, <2>3
  <2> HIDE DEF last, S
  <2>5. last - 1 \in 1 .. Len(f.sent) /\ f.sent[last - 1] \notin {Newline, Text}
    <3>1. last - 1 > from /\ f.sent[last - 1] \notin {Newline, Text}
      BY <2>4 DEF IsMarker
    <3>2. Len(f.sent) \in Nat
      BY DEF PipeFrameType
    <3> QED BY <2>4, <3>1, <3>2
  <2>6. f.sent[last - 1] \in Units
    BY <2>5 DEF PipeFrameType
  <2>7. f.sent[last - 1] = End \/ \E s \in Sessions : f.sent[last - 1] = Start(s)
    BY <2>5, <2>6 DEF Units
  <2>8. SessionAfter(f, from, c, n) =
          IF f.sent[last - 1] = End THEN NoSession ELSE f.sent[last - 1][2]
    BY <1>1 DEF SessionAfter, last
  <2>9. ASSUME NEW s \in Sessions PROVE Start(s)[2] = s
    BY DEF Start
  <2> QED BY <2>7, <2>8, <2>9
<1>2. CASE ~\E j \in from + 1 .. n : IsMarker(f, from, j)
  BY <1>2 DEF SessionAfter
<1> QED BY <1>1, <1>2

\* The loop over the buffer only changes which session is current.
LEMMA ParseFacts ==
  ASSUME NEW f \in PipeFrameType, BufferInv(f)
  PROVE  /\ Parse(f) \in PipeFrameType /\ BufferInv(Parse(f))
         /\ Parse(f).sent = f.sent /\ Parse(f).closed = f.closed
         /\ Parse(f).from = f.from /\ Parse(f).read = f.read
<1>1. /\ f.sent \in Seq(Units) /\ Len(f.sent) \in Nat /\ f.closed \in BOOLEAN
      /\ f.from \in Nat /\ f.read \in Nat /\ f.current \in Sessions \cup {NoSession}
  BY DEF PipeFrameType
<1>2. SessionAt(f, f.read + 1) \in Sessions \cup {NoSession}
  <2>1. (f.read + 1) - 1 = f.read /\ f.read <= Len(f.sent) + 1
    BY <1>1 DEF BufferInv
  <2> QED BY <1>1, <2>1, SessionAfterType DEF SessionAt
<1>3. Parse(f) = [sent |-> f.sent, closed |-> f.closed, from |-> f.from,
                  read |-> f.read, current |-> SessionAt(f, f.read + 1)]
  BY DEF Parse, PipeFrameType
<1> QED BY <1>1, <1>2, <1>3 DEF PipeFrameType, BufferInv

\* The lines in the buffer are positions of it.
LEMMA LinesInBuffer ==
  ASSUME NEW f \in PipeFrameType
  PROVE  /\ Lines(f) \in SUBSET (f.from + 1 .. f.read)
         /\ Lines(f) \in SUBSET (1 .. f.read)
         /\ Saved(f) \subseteq Lines(f)
<1>1. f.from \in Nat /\ f.read \in Nat
  BY DEF PipeFrameType
<1> QED BY <1>1 DEF Lines, Saved, TextLines

\* clear leaves of the buffer its last newline and what follows.
LEMMA ClearFacts ==
  ASSUME NEW f \in PipeFrameType, BufferInv(f)
  PROVE  /\ Clear(f) \in PipeFrameType /\ BufferInv(Clear(f))
         /\ Clear(f).sent = f.sent /\ Clear(f).closed = f.closed
         /\ Clear(f).read = f.read /\ Clear(f).current = f.current
         /\ f.from <= Clear(f).from
         /\ Lines(Clear(f)) \subseteq {Clear(f).from + 1}
         /\ \A j \in Lines(f) : j <= Clear(f).from + 1
<1>1. /\ f.sent \in Seq(Units) /\ Len(f.sent) \in Nat /\ f.closed \in BOOLEAN
      /\ f.from \in Nat /\ f.read \in Nat /\ f.current \in Sessions \cup {NoSession}
  BY DEF PipeFrameType
<1>2. CASE Lines(f) = {}
  <2>1. Clear(f) = f
    BY <1>2 DEF Clear
  <2> QED BY <1>1, <1>2, <2>1
<1>3. CASE Lines(f) # {}
  <2> DEFINE m == Max(Lines(f))
  <2>1. Lines(f) \in SUBSET (1 .. f.read)
    BY LinesInBuffer
  <2>2. m \in Lines(f) /\ \A y \in Lines(f) : m >= y
    BY <1>1, <1>3, <2>1, LastPosition
  <2>3. /\ m \in f.from + 1 .. f.read /\ f.sent[m] = Newline
        /\ \A y \in f.from + 1 .. f.read : f.sent[y] = Newline => m >= y
    BY <2>2 DEF Lines
  <2>4. Clear(f) = [f EXCEPT !.from = m - 1]
    BY <1>3 DEF Clear
  <2> HIDE DEF m
  <2>5. Clear(f) = [sent |-> f.sent, closed |-> f.closed, from |-> m - 1,
                    read |-> f.read, current |-> f.current]
    BY <2>4 DEF PipeFrameType
  <2>6. m \in Nat /\ m - 1 \in Nat /\ (m - 1) + 1 = m /\ m <= f.read /\ f.from <= m - 1
    BY <1>1, <2>3
  <2>7. Clear(f) \in PipeFrameType
    BY <1>1, <2>5, <2>6 DEF PipeFrameType
  <2>8. BufferInv(Clear(f))
    BY <1>1, <2>3, <2>5, <2>6 DEF BufferInv
  <2>9. Lines(Clear(f)) \subseteq {Clear(f).from + 1}
    <3>1. ASSUME NEW y \in m - 1 + 1 .. f.read, f.sent[y] = Newline PROVE y = m
      BY <1>1, <2>3, <2>6, <3>1
    <3> QED BY <2>5, <2>6, <3>1 DEF Lines
  <2>10. \A j \in Lines(f) : j <= Clear(f).from + 1
    <3>1. ASSUME NEW j \in Lines(f) PROVE j <= m
      BY <1>1, <2>2, <2>6, LinesInBuffer
    <3> QED BY <2>5, <2>6, <3>1
  <2> QED BY <2>5, <2>6, <2>7, <2>8, <2>9, <2>10
<1> QED BY <1>2, <1>3

\* What is printed later changes nothing in the buffer.
LEMMA PrintFacts ==
  ASSUME NEW f \in PipeFrameType, BufferInv(f), NEW u \in Units,
         NEW g, g = [f EXCEPT !.sent = Append(f.sent, u)]
  PROVE  /\ g \in PipeFrameType /\ BufferInv(g)
         /\ g.sent = Append(f.sent, u) /\ g.closed = f.closed
         /\ g.from = f.from /\ g.read = f.read /\ g.current = f.current
         /\ Lines(g) = Lines(f)
<1>1. /\ f.sent \in Seq(Units) /\ Len(f.sent) \in Nat /\ f.closed \in BOOLEAN
      /\ f.from \in Nat /\ f.read \in Nat /\ f.current \in Sessions \cup {NoSession}
  BY DEF PipeFrameType
<1>2. g = [sent |-> Append(f.sent, u), closed |-> f.closed, from |-> f.from,
           read |-> f.read, current |-> f.current]
  BY DEF PipeFrameType
<1>3. /\ Append(f.sent, u) \in Seq(Units) /\ Len(Append(f.sent, u)) = Len(f.sent) + 1
      /\ \A j \in 1 .. Len(f.sent) : Append(f.sent, u)[j] = f.sent[j]
  BY <1>1
<1>4. g \in PipeFrameType
  BY <1>1, <1>2, <1>3 DEF PipeFrameType
<1>5. \A j \in f.from + 1 .. f.read : g.sent[j] = f.sent[j]
  BY <1>1, <1>2, <1>3 DEF BufferInv
<1>6. BufferInv(g)
  <2>1. f.from # 0 => f.from + 1 \in f.from + 1 .. f.read
    BY <1>1 DEF BufferInv
  <2> QED BY <1>1, <1>2, <1>3, <1>5, <2>1 DEF BufferInv
<1>7. Lines(g) = Lines(f)
  BY <1>2, <1>5 DEF Lines
<1> QED BY <1>2, <1>4, <1>6, <1>7

-----------------------------------------------------------------------------
(* Whole lines *)

\* k is the position, after from, where the line of position j begins.
Begins(f, from, j, k) ==
  /\ k \in from + 1 .. j
  /\ LineStart(f, from, k)
  /\ \A n \in k .. j - 1 : f.sent[n] # Newline

\* There is one such position.
LEMMA LineBegins ==
  ASSUME NEW f \in PipeFrameType, NEW from \in Nat, NEW j \in Nat, j > from
  PROVE  \E k \in from + 1 .. j :
           /\ Begins(f, from, j, k)
           /\ Body(f, from, j) = SubSeq(f.sent, k, j - 1)
           /\ \A i : Begins(f, from, j, i) => i = k
<1> DEFINE S == {k \in from + 1 .. j : LineStart(f, from, k)}
           P(k) == /\ LineStart(f, from, k)
                   /\ \A n \in k .. j - 1 : f.sent[n] # Newline
           c == CHOOSE k \in from + 1 .. j : P(k)
<1>1. S \in SUBSET (1 .. j) /\ S # {}
  <2>1. from + 1 \in from + 1 .. j /\ LineStart(f, from, from + 1)
    BY DEF LineStart
  <2> QED BY <2>1
<1>2. PICK m \in S : \A y \in S : m >= y
  BY <1>1, LastPosition
<1>3. m \in from + 1 .. j /\ LineStart(f, from, m)
  BY <1>2
<1>4. ASSUME NEW n \in m .. j - 1 PROVE f.sent[n] # Newline
  <2>1. n + 1 \in from + 1 .. j /\ (n + 1) - 1 = n /\ ~(m >= n + 1)
    BY <1>3
  <2>2. n + 1 \notin S
    BY <1>2, <2>1
  <2>3. ~LineStart(f, from, n + 1)
    BY <2>1, <2>2
  <2> QED BY <2>1, <2>3 DEF LineStart
<1>5. \E k \in from + 1 .. j : P(k)
  BY <1>3, <1>4
<1>6. c \in from + 1 .. j /\ P(c)
  BY <1>5, Zenon
<1>7. Body(f, from, j) = SubSeq(f.sent, c, j - 1)
  BY DEF Body
<1>8. Begins(f, from, j, c)
  BY <1>6 DEF Begins
<1> HIDE DEF c, P
<1>9. ASSUME NEW i, Begins(f, from, j, i) PROVE i = c
  <2>1. /\ i \in from + 1 .. j /\ c \in from + 1 .. j
        /\ i = from + 1 \/ f.sent[i - 1] = Newline
        /\ c = from + 1 \/ f.sent[c - 1] = Newline
        /\ \A n \in i .. j - 1 : f.sent[n] # Newline
        /\ \A n \in c .. j - 1 : f.sent[n] # Newline
    BY <1>8, <1>9 DEF Begins, LineStart
  <2>2. ~(i < c)
    <3> SUFFICES ASSUME i < c PROVE FALSE
      OBVIOUS
    <3>1. c - 1 \in i .. j - 1 /\ c # from + 1
      BY <2>1
    <3> QED BY <2>1, <3>1
  <2>3. ~(c < i)
    <3> SUFFICES ASSUME c < i PROVE FALSE
      OBVIOUS
    <3>1. i - 1 \in c .. j - 1 /\ i # from + 1
      BY <2>1
    <3> QED BY <2>1, <3>1
  <2> QED BY <2>1, <2>2, <2>3
<1> QED BY <1>6, <1>7, <1>8, <1>9

\* A line after the first position of a buffer that begins with a newline is
\* what was printed between two newlines.
LEMMA WholeLine ==
  ASSUME NEW f \in PipeFrameType, BufferInv(f), NEW j \in Nat,
         j > f.from, f.from = 0 \/ j # f.from + 1
  PROVE  Body(f, f.from, j) = Body(f, 0, j)
<1>1. CASE f.from = 0
  BY <1>1
<1>2. CASE f.from # 0
  <2>1. /\ f.from \in Nat /\ f.sent[f.from + 1] = Newline
        /\ j > f.from + 1
    BY <1>2 DEF PipeFrameType, BufferInv
  <2>2. PICK k \in f.from + 1 .. j :
          /\ Begins(f, f.from, j, k)
          /\ Body(f, f.from, j) = SubSeq(f.sent, k, j - 1)
    BY <2>1, LineBegins
  <2>3. PICK l \in 0 + 1 .. j :
          /\ Body(f, 0, j) = SubSeq(f.sent, l, j - 1)
          /\ \A i : Begins(f, 0, j, i) => i = l
    <3>1. j > 0 /\ 0 \in Nat
      BY <2>1
    <3> QED BY <3>1, LineBegins
  <2>4. Begins(f, 0, j, k)
    <3>1. /\ LineStart(f, f.from, k)
          /\ \A n \in k .. j - 1 : f.sent[n] # Newline
      BY <2>2 DEF Begins
    <3>2. k # f.from + 1
      <4> SUFFICES ASSUME k = f.from + 1 PROVE FALSE
        OBVIOUS
      <4>1. k \in k .. j - 1
        BY <2>1
      <4> QED BY <2>1, <3>1, <4>1
    <3>3. k \in 0 + 1 .. j
      BY <2>1
    <3>4. LineStart(f, 0, k)
      BY <3>1, <3>2 DEF LineStart
    <3> QED BY <3>1, <3>3, <3>4 DEF Begins
  <2>5. k = l
    BY <2>3, <2>4
  <2> QED BY <2>2, <2>3, <2>5
<1> QED BY <1>1, <1>2

-----------------------------------------------------------------------------
(* The session that is current *)

\* The session, or none, that the marker line ending at position j names.
NamedAt(f, j) == IF f.sent[j - 1] = End THEN NoSession ELSE f.sent[j - 1][2]

\* j is the last position up to n that ends a marker line.
LastMarker(f, from, n, j) ==
  /\ j \in from + 1 .. n /\ IsMarker(f, from, j)
  /\ \A k \in j + 1 .. n : ~IsMarker(f, from, k)

\* It decides which session is current.
LEMMA MarkerDecides ==
  ASSUME NEW f, NEW from \in Nat, NEW n \in Nat, NEW c, NEW j, LastMarker(f, from, n, j)
  PROVE  SessionAfter(f, from, c, n) = NamedAt(f, j)
<1> DEFINE P(k) == IsMarker(f, from, k) /\ \A l \in k + 1 .. n : ~IsMarker(f, from, l)
           last == CHOOSE k \in from + 1 .. n : P(k)
<1>1. j \in from + 1 .. n /\ P(j)
  BY DEF LastMarker
<1>2. last \in from + 1 .. n /\ P(last)
  BY <1>1, Zenon
<1>3. SessionAfter(f, from, c, n) = NamedAt(f, last)
  BY <1>1 DEF SessionAfter, NamedAt
<1> HIDE DEF last
<1>4. last = j
  <2>1. ~(last < j) /\ ~(j < last)
    <3>1. last < j => j \in last + 1 .. n
      BY <1>1, <1>2
    <3>2. j < last => last \in j + 1 .. n
      BY <1>1, <1>2
    <3> QED BY <1>1, <1>2, <3>1, <3>2
  <2> QED BY <1>1, <1>2, <2>1
<1> QED BY <1>3, <1>4

\* Where there is a marker line there is a last one.
LEMMA LastMarkerExists ==
  ASSUME NEW f, NEW from \in Nat, NEW n \in Nat,
         \E j \in from + 1 .. n : IsMarker(f, from, j)
  PROVE  \E j \in from + 1 .. n : LastMarker(f, from, n, j)
<1> DEFINE S == {j \in from + 1 .. n : IsMarker(f, from, j)}
<1>1. S \in SUBSET (1 .. n) /\ S # {}
  OBVIOUS
<1>2. PICK m \in S : \A y \in S : m >= y
  BY <1>1, LastPosition
<1>3. ASSUME NEW k \in m + 1 .. n PROVE ~IsMarker(f, from, k)
  <2>1. k \in from + 1 .. n /\ ~(m >= k)
    BY <1>2
  <2> QED BY <1>2, <2>1
<1> QED BY <1>2, <1>3 DEF LastMarker

\* Positions that are not marker lines change nothing.
LEMMA NoMarkerNoChange ==
  ASSUME NEW f, NEW from \in Nat, NEW m \in Nat, NEW n \in Nat, NEW c, m <= n,
         \A k \in m + 1 .. n : ~IsMarker(f, from, k)
  PROVE  SessionAfter(f, from, c, n) = SessionAfter(f, from, c, m)
<1>1. CASE \E j \in from + 1 .. m : IsMarker(f, from, j)
  <2>1. PICK j \in from + 1 .. m : LastMarker(f, from, m, j)
    BY <1>1, LastMarkerExists
  <2>2. \A k \in j + 1 .. n : k \in j + 1 .. m \/ k \in m + 1 .. n
    OBVIOUS
  <2>3. LastMarker(f, from, n, j)
    BY <2>1, <2>2 DEF LastMarker
  <2> QED BY <2>1, <2>3, MarkerDecides
<1>2. CASE \A j \in from + 1 .. m : ~IsMarker(f, from, j)
  <2>1. \A j \in from + 1 .. n : j \in from + 1 .. m \/ j \in m + 1 .. n
    OBVIOUS
  <2>2. \A j \in from + 1 .. n : ~IsMarker(f, from, j)
    BY <1>2, <2>1
  <2> QED BY <1>2, <2>2 DEF SessionAfter
<1> QED BY <1>1, <1>2

\* In a buffer that begins with a newline the marker lines are those of all
\* that was printed.
LEMMA SameMarkers ==
  ASSUME NEW f \in PipeFrameType, BufferInv(f)
  PROVE  /\ \A j \in f.from + 1 .. Len(f.sent) :
              \/ f.from # 0 /\ j = f.from + 1
              \/ IsMarker(f, f.from, j) <=> IsMarker(f, 0, j)
         /\ f.from # 0 => ~IsMarker(f, f.from, f.from + 1)
<1>1. f.from \in Nat /\ Len(f.sent) \in Nat
  BY DEF PipeFrameType
<1>2. ASSUME f.from # 0, NEW j \in f.from + 2 .. Len(f.sent)
      PROVE  IsMarker(f, f.from, j) <=> IsMarker(f, 0, j)
  <2>1. f.sent[f.from + 1] = Newline
    BY <1>2 DEF BufferInv
  <2>2. f.sent[j - 1] # Newline => j - 1 # f.from + 1
    BY <2>1
  <2>3. j - 1 > f.from /\ j - 1 > 0 /\ j - 1 # 0 + 1
    BY <1>1, <1>2
  <2> QED BY <2>2, <2>3 DEF IsMarker, LineStart
<1> QED BY <1>1, <1>2 DEF IsMarker, BufferInv

\* So to look through the buffer again, with what was current, comes to the
\* same as to look through all that was printed.
LEMMA SessionCarries ==
  ASSUME NEW f \in PipeFrameType, BufferInv(f), NEW m \in Nat, m <= f.read,
         f.from # 0 => f.from + 1 <= m,
         NEW c, c = SessionAfter(f, 0, NoSession, m)
  PROVE  SessionAfter(f, f.from, c, f.read) = SessionAfter(f, 0, NoSession, f.read)
<1>1. /\ f.from \in Nat /\ f.read \in Nat /\ Len(f.sent) \in Nat /\ f.read <= Len(f.sent)
  BY DEF PipeFrameType, BufferInv
<1>2. CASE \E j \in f.from + 1 .. f.read : IsMarker(f, f.from, j)
  <2>1. PICK j \in f.from + 1 .. f.read : LastMarker(f, f.from, f.read, j)
    BY <1>1, <1>2, LastMarkerExists
  <2>2. IsMarker(f, f.from, j) /\ \A k \in j + 1 .. f.read : ~IsMarker(f, f.from, k)
    BY <2>1 DEF LastMarker
  <2>3. ~(f.from # 0 /\ j = f.from + 1)
    BY <2>2, SameMarkers
  <2>4. j \in f.from + 1 .. Len(f.sent)
    BY <1>1, <2>1
  <2>5. IsMarker(f, 0, j)
    BY <2>2, <2>3, <2>4, SameMarkers
  <2>6. ASSUME NEW k \in j + 1 .. f.read PROVE ~IsMarker(f, 0, k)
    <3>1. k \in f.from + 1 .. Len(f.sent) /\ k # f.from + 1
      BY <1>1, <2>1
    <3> QED BY <2>2, <3>1, SameMarkers
  <2>7. j \in 0 + 1 .. f.read
    BY <1>1, <2>1
  <2>8. LastMarker(f, 0, f.read, j)
    BY <2>5, <2>6, <2>7 DEF LastMarker
  <2> QED BY <1>1, <2>1, <2>8, MarkerDecides
<1>3. CASE \A j \in f.from + 1 .. f.read : ~IsMarker(f, f.from, j)
  <2>1. SessionAfter(f, f.from, c, f.read) = c
    BY <1>3 DEF SessionAfter
  <2>2. ASSUME NEW k \in m + 1 .. f.read PROVE ~IsMarker(f, 0, k)
    <3>1. /\ k \in f.from + 1 .. f.read /\ k \in f.from + 1 .. Len(f.sent)
          /\ ~(f.from # 0 /\ k = f.from + 1)
      BY <1>1
    <3> QED BY <1>3, <3>1, SameMarkers
  <2>3. SessionAfter(f, 0, NoSession, f.read) = SessionAfter(f, 0, NoSession, m)
    BY <1>1, <2>2, NoMarkerNoChange
  <2> QED BY <2>1, <2>3
<1> QED BY <1>2, <1>3

\* The session after n depends on what was printed up to n alone.
LEMMA SameSession ==
  ASSUME NEW f, NEW g, NEW n \in Nat, \A i \in 1 .. n : f.sent[i] = g.sent[i], NEW c
  PROVE  SessionAfter(f, 0, c, n) = SessionAfter(g, 0, c, n)
<1>1. \A j \in 0 + 1 .. n : IsMarker(f, 0, j) <=> IsMarker(g, 0, j)
  <2> SUFFICES ASSUME NEW j \in 0 + 1 .. n
               PROVE  IsMarker(f, 0, j) <=> IsMarker(g, 0, j)
    OBVIOUS
  <2>1. f.sent[j] = g.sent[j]
    OBVIOUS
  <2>2. j - 1 > 0 => f.sent[j - 1] = g.sent[j - 1]
    <3>1. j - 1 > 0 => j - 1 \in 1 .. n
      OBVIOUS
    <3> QED BY <3>1
  <2>3. j - 1 > 0 => (LineStart(f, 0, j - 1) <=> LineStart(g, 0, j - 1))
    <3>1. j - 1 > 0 => j - 1 = 0 + 1 \/ j - 1 - 1 \in 1 .. n
      OBVIOUS
    <3> QED BY <3>1 DEF LineStart
  <2> QED BY <2>1, <2>2, <2>3 DEF IsMarker
<1>2. CASE \E j \in 0 + 1 .. n : IsMarker(f, 0, j)
  <2>1. PICK j \in 0 + 1 .. n : LastMarker(f, 0, n, j)
    BY <1>2, LastMarkerExists
  <2>2. \A k \in j + 1 .. n : k \in 0 + 1 .. n
    OBVIOUS
  <2>3. LastMarker(g, 0, n, j)
    BY <1>1, <2>1, <2>2 DEF LastMarker
  <2>4. NamedAt(f, j) = NamedAt(g, j)
    <3>1. j - 1 > 0
      BY <2>1 DEF LastMarker, IsMarker
    <3>2. j - 1 \in 1 .. n
      BY <3>1
    <3> QED BY <3>2 DEF NamedAt
  <2> QED BY <2>1, <2>3, <2>4, MarkerDecides
<1>3. CASE ~\E j \in 0 + 1 .. n : IsMarker(f, 0, j)
  <2>1. ~\E j \in 0 + 1 .. n : IsMarker(g, 0, j)
    BY <1>1, <1>3
  <2> QED BY <1>3, <2>1 DEF SessionAfter
<1> QED BY <1>2, <1>3

\* The session current on a frame is the one all that was read makes current.
Faithful(f) == f.current = SessionAfter(f, 0, NoSession, f.read)

\* A read keeps it so: what it leaves current is what was printed.
LEMMA ReadFaithful ==
  ASSUME NEW f \in PipeFrameType, BufferInv(f), Faithful(f)
  PROVE  LET g == Fill(f) IN
         Parse(g).current = SessionAfter(g, 0, NoSession, g.read)
<1> DEFINE g == Fill(f)
<1>1. /\ g \in PipeFrameType /\ BufferInv(g) /\ g.sent = f.sent
      /\ g.from = f.from /\ g.current = f.current /\ f.read <= g.read
  BY FillFacts
<1> HIDE DEF g
<1>2. f.read \in Nat /\ g.read \in Nat /\ f.from \in Nat
  BY <1>1 DEF PipeFrameType
<1>3. g.current = SessionAfter(g, 0, NoSession, f.read)
  <2>1. SessionAfter(f, 0, NoSession, f.read) = SessionAfter(g, 0, NoSession, f.read)
    BY <1>1, <1>2, SameSession
  <2> QED BY <1>1, <2>1 DEF Faithful
<1>4. g.from # 0 => g.from + 1 <= f.read
  BY <1>1 DEF BufferInv
<1>5. SessionAfter(g, g.from, g.current, g.read) = SessionAfter(g, 0, NoSession, g.read)
  BY <1>1, <1>2, <1>3, <1>4, SessionCarries
<1>6. Parse(g).current = SessionAt(g, g.read + 1)
  BY <1>1 DEF Parse, PipeFrameType
<1>7. (g.read + 1) - 1 = g.read
  BY <1>2
<1> QED BY <1>5, <1>6, <1>7 DEF SessionAt, g
=============================================================================
