----------------------------- MODULE PipeFrame -----------------------------
(***************************************************************************)
(* Master's reader of the pipe that carries one worker's stdout or stderr  *)
(* (server/runmaster/pipeframe.rs).  The pipe is a stream of units: pieces *)
(* of text, newlines, and the two marker lines (without their newline) by  *)
(* which a worker is to tell which session the lines between them belong   *)
(* to.  As in FdStream nothing is taken out of the record; the reader's    *)
(* buffer is the part of sent from position from + 1 to position read:     *)
(*   sent     units the worker printed                                     *)
(*   closed   the worker's end of the pipe is closed                       *)
(*   from     units clear has dropped from the front of the buffer         *)
(*   read     units read from the pipe                                     *)
(*   current  current_session_id                                           *)
(* A line is named by the position of the newline that ends it.            *)
(***************************************************************************)
EXTENDS Integers, Sequences, FiniteSetsExt

CONSTANTS
  Sessions,       \* session ids, each with its output stream
  NoSession,      \* current_session_id is None
  ReadUnits       \* units that fit in the buffer of one read

ASSUME PipeFrameAssumption ==
  /\ NoSession \notin Sessions
  /\ ReadUnits \in Nat \ {0}

Newline  == <<"newline">>
Text     == <<"text">>
End      == <<"end">>               \* NEW_REQUEST_END
Start(s) == <<"start", s>>          \* NEW_REQUEST_START and a session id

Units == {Newline, Text, End} \cup {Start(s) : s \in Sessions}

PipeFrameType ==
  [sent: Seq(Units), closed: BOOLEAN, from: Nat, read: Nat,
   current: Sessions \cup {NoSession}]

NewFrame ==
  [sent |-> <<>>, closed |-> FALSE, from |-> 0, read |-> 0,
   current |-> NoSession]

Unread(f) == Len(f.sent) - f.read

-----------------------------------------------------------------------------
(* The lines in the buffer *)

\* The newlines of the buffer, each the end of a line.
Lines(f) == {j \in f.from + 1 .. f.read : f.sent[j] = Newline}

\* Does a line begin at position i, in a buffer that begins after from?
LineStart(f, from, i) == i = from + 1 \/ f.sent[i - 1] = Newline

\* What stands before position j on its line.
Body(f, from, j) ==
  LET i == CHOOSE k \in from + 1 .. j :
             /\ LineStart(f, from, k)
             /\ \A n \in k .. j - 1 : f.sent[n] # Newline
  IN SubSeq(f.sent, i, j - 1)

\* A marker counts only when it is a line of its own.
IsMarker(f, from, j) ==
  /\ f.sent[j] = Newline
  /\ j - 1 > from
  /\ f.sent[j - 1] \notin {Newline, Text}
  /\ LineStart(f, from, j - 1)

\* The session that marker lines make current between from and n, when the
\* one before them is current.
SessionAfter(f, from, current, n) ==
  IF \E j \in from + 1 .. n : IsMarker(f, from, j)
  THEN LET last == CHOOSE j \in from + 1 .. n :
                     /\ IsMarker(f, from, j)
                     /\ \A k \in j + 1 .. n : ~IsMarker(f, from, k)
       IN IF f.sent[last - 1] = End THEN NoSession ELSE f.sent[last - 1][2]
  ELSE current

\* The session that is current when the loop of read comes to position n.  The
\* loop always starts at the front of the buffer, with the session that was
\* current at the end of the last read.
SessionAt(f, n) == SessionAfter(f, f.from, f.current, n - 1)

TextLines(f) == {j \in Lines(f) : ~IsMarker(f, f.from, j)}

\* Lines saved for the session, and lines written to master's own output.
Saved(f)  == {j \in TextLines(f) : SessionAt(f, j) # NoSession}
Echoed(f) == {j \in TextLines(f) : SessionAt(f, j) = NoSession}

-----------------------------------------------------------------------------
(* The operations *)

\* One read from the pipe.
\* Mutant: the last unit of the buffer is not used.
FillShort(f) == [f EXCEPT !.read = @ + Min({ReadUnits - 1, Unread(f)})]
Fill(f) == [f EXCEPT !.read = @ + Min({ReadUnits, Unread(f)})]

\* The loop over the buffer: what it leaves in current_session_id.  The lines
\* it saved are returned for that one session, and not at all without one.
Parse(f) == [f EXCEPT !.current = SessionAt(f, f.read + 1)]

\* clear: the buffer goes on from its last newline, which stays in it.
\* Mutants: the whole buffer goes, the unfinished line with it; nothing goes.
ClearAll(f)  == [f EXCEPT !.from = f.read]
ClearNone(f) == f
Clear(f) == IF Lines(f) = {} THEN f ELSE [f EXCEPT !.from = Max(Lines(f)) - 1]
=============================================================================
