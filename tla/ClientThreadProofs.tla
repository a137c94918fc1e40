------------------------- MODULE ClientThreadProofs -------------------------
(***************************************************************************)
(* Theorems about ClientThread, for any ids, lines, buffer and choice of   *)
(* what may happen: types, that a future is given its own result once and  *)
(* is never forgotten, that an error is raised once, and that a session    *)
(* implements SessionCalls.                                                *)
(*                                                                         *)
(* The safety of the futures rests on where an id can be: its sender says  *)
(* whether its code is in the channel, in the outbuffer or past it, and    *)
(* responses only name ids that were put in the outbuffer.                 *)
(***************************************************************************)
EXTENDS MCClientThread, SequenceTheorems, TLAPS

-----------------------------------------------------------------------------
(* The inductive invariant *)

\* Responses name ids whose request was put in the outbuffer.
Answers == ElementsOf(resps) \subseteq ElementsOf(queued)

\* Where the sender of the future id is, its code and its request are, and it
\* has no result before its sender is gone.
Placed(id) ==
  /\ id \notin issued => sender[id] = "none"
  /\ id \in ElementsOf(codeq) => sender[id] = "queue"
  /\ sender[id] \in {"none", "queue"} => id \notin ElementsOf(queued)
  /\ sender[id] = "queue" => ~Ended /\ id \in ElementsOf(codeq)
  /\ sender[id] = "map" => /\ ~Ended /\ id \in ElementsOf(queued)
                           /\ \A i \in 1 .. handled : resps[i] # id
  /\ sender[id] # "gone" => mail[id] = <<>> /\ outcome[id] \notin Ids

\* A result is the future's own, and one whose sender is gone was given it,
\* was answered otherwise, or saw the thread end.
Settled(id) ==
  /\ mail[id] \in {<<>>, <<id>>}
  /\ outcome[id] \in Ids => outcome[id] = id /\ mail[id] = <<>>
  /\ sender[id] = "gone" => Ended \/ mail[id] # <<>> \/ outcome[id] # "none"

Futures == \A id \in Ids : Placed(id) /\ Settled(id)

\* The error is raised when the handle is given up, of a thread that failed.
Raised ==
  /\ handle => reported = 0
  /\ reported <= 1
  /\ reported = 1 => tres = "err" /\ tpc = "finished" /\ ~handle

FutureInv == Bounds /\ Answers /\ Futures

-----------------------------------------------------------------------------
(* Types *)

\* The types of what the end of the thread changes.
EndTypes ==
  /\ tpc \in {"connect", "top", "head", "poll", "batch", "read", "ended", "finished"}
  /\ tres \in {"none", "ok", "err"}
  /\ codeq \in Seq(Ids) /\ sender \in [Ids -> {"none", "queue", "map", "gone"}]
  /\ mainEvent \in {"none", "readable", "writable"} /\ outEvent \in BOOLEAN

\* It keeps them.
LEMMA ReturnTypes ==
  ASSUME Types, NEW res \in {"ok", "err"}, Return(res)
  PROVE  /\ tpc' = "ended" /\ tres' = res /\ codeq' \in Seq(Ids)
         /\ sender' \in [Ids -> {"none", "queue", "map", "gone"}]
         /\ mainEvent' = "none" /\ outEvent' = FALSE
BY DEF Types, Return

\* Quotients by the length of a message, and what a read adds.
LEMMA Units ==
  ASSUME NEW a \in Nat, NEW b \in Nat, a <= b
  PROVE  /\ a \div FrameLen \in Nat /\ b \div FrameLen \in Nat
         /\ a \div FrameLen <= b \div FrameLen
         /\ a + OneRead(b - a) \in Nat
         /\ a + OneRead(b - a) <= b
         /\ a <= a + OneRead(b - a)
BY ClientThreadAssumption DEF FrameLen, OneRead, Smaller

\* What settles a future is its own id, and a response that was read.
LEMMA OwnIdSettles ==
  ASSUME NEW id \in Ids, SettledBy(id) # {}
  PROVE  /\ SettledBy(id) = {id} /\ id \in InMap
         /\ \E i \in Unhandled : resps[i] = id
         /\ (CHOOSE r \in SettledBy(id) : TRUE) = id
<1>1. /\ id \in InMap
      /\ SettledBy(id) = {r \in {resps[i] : i \in Unhandled} : r = id}
  BY DEF SettledBy
<1>2. SettledBy(id) = {id} /\ \E i \in Unhandled : resps[i] = id
  BY <1>1
<1> QED BY <1>1, <1>2

\* So the head of the loop gives a settled future its own id.
LEMMA HeadMail ==
  ASSUME ThreadLoopHead, ~dropped
  PROVE  mail' = [id \in Ids |-> IF SettledBy(id) # {} THEN Append(mail[id], id)
                                                       ELSE mail[id]]
<1>1. mail' = [id \in Ids |->
                 IF SettledBy(id) # {}
                 THEN Append(mail[id], CHOOSE r \in SettledBy(id) : TRUE)
                 ELSE mail[id]]
  BY DEF ThreadLoopHead
<1>2. ASSUME NEW id \in Ids, SettledBy(id) # {}
      PROVE  Append(mail[id], CHOOSE r \in SettledBy(id) : TRUE) = Append(mail[id], id)
  <2>1. (CHOOSE r \in SettledBy(id) : TRUE) = id
    BY <1>2, OwnIdSettles
  <2> QED BY <2>1, Zenon
<1> QED BY <1>1, <1>2, Zenon

\* Calls of Python keep the types.
LEMMA PythonTypes ==
  ASSUME Types, PythonStep
  PROVE  Types'
<1>1. ASSUME NEW id \in Ids, Eval(id) PROVE Types'
  BY <1>1 DEF Types, Eval, pyVars, mailVars, loopVars, evVars, edgeVars, netVars, Outcomes
<1>2. ASSUME NEW id \in Ids, Wait(id) PROVE Types'
  BY <1>2 DEF Types, Wait, pyVars, mailVars, loopVars, evVars, edgeVars, netVars
<1>3. ASSUME NEW id \in Ids, WaitReturns(id) PROVE Types'
  <2>1. mail[id] \in Seq(Ids) /\ mail \in [Ids -> Seq(Ids)]
        /\ outcome \in [Ids -> Outcomes] /\ "closed" \in Outcomes
        /\ Ids \subseteq Outcomes
    BY DEF Types, Outcomes
  <2>2. mail[id] # <<>> => Head(mail[id]) \in Ids /\ Tail(mail[id]) \in Seq(Ids)
    BY <2>1
  <2>3. outcome' \in [Ids -> Outcomes] /\ mail' \in [Ids -> Seq(Ids)]
    BY <2>1, <2>2, <1>3 DEF WaitReturns
  <2> QED BY <2>3, <1>3 DEF Types, WaitReturns, pyVars, mailVars, loopVars,
                            evVars, edgeVars, netVars
<1>4. ASSUME NEW id \in Ids, WaitTimesOut(id) PROVE Types'
  BY <1>4 DEF Types, WaitTimesOut, mailVars, loopVars, evVars, edgeVars,
              netVars, Outcomes
<1>5. ASSUME CheckThreadFails PROVE Types'
  <2>1. handle' \in BOOLEAN
    BY <1>5 DEF CheckThreadFails
  <2>2. reported' \in Nat
    BY <1>5 DEF Types, CheckThreadFails
  <2> QED BY <1>5, <2>1, <2>2 DEF Types, CheckThreadFails, mailVars, loopVars,
                                  evVars, edgeVars, netVars
<1>6. ASSUME NextOutput PROVE Types'
  BY <1>6 DEF Types, NextOutput, mailVars, loopVars, evVars, edgeVars, netVars
<1>7. ASSUME Disconnect PROVE Types'
  BY <1>7 DEF Types, Disconnect, mailVars, loopVars, evVars, edgeVars, netVars
<1>8. ASSUME DropClient PROVE Types'
  <2>1. dropped' \in BOOLEAN /\ handle' \in BOOLEAN
    BY <1>8 DEF DropClient
  <2> QED BY <1>8, <2>1 DEF Types, DropClient, mailVars, loopVars, evVars,
                            edgeVars, netVars
<1> QED BY <1>1, <1>2, <1>3, <1>4, <1>5, <1>6, <1>7, <1>8 DEF PythonStep

\* Steps of the server and the network keep the types.
LEMMA NetworkTypes ==
  ASSUME Types, NetworkStep
  PROVE  Types'
<1>1. ASSUME NEW id \in Ids, ServerResponds(id) PROVE Types'
  BY <1>1 DEF Types, ServerResponds, pyVars, mailVars, loopVars, evVars, edgeVars
<1>2. ASSUME ResponseArrives PROVE Types'
  <2>1. PICK n \in arrived + 1 .. FrameLen * Len(resps) : arrived' = n
    BY <1>2 DEF ResponseArrives
  <2>2. arrived' \in Nat
    BY <2>1 DEF Types, FrameLen
  <2> QED BY <2>2, <1>2 DEF Types, ResponseArrives, pyVars, mailVars,
                            loopVars, evVars
<1>3. ASSUME OutputArrives PROVE Types'
  BY <1>3 DEF Types, OutputArrives, FrameLen, pyVars, mailVars, loopVars, evVars
<1>4. ASSUME ServerCloses PROVE Types'
  <2>1. /\ mainEdge' \in BOOLEAN /\ outEdge' \in BOOLEAN
        /\ eof' \in BOOLEAN /\ outEof' \in BOOLEAN
    BY <1>4 DEF Types, ServerCloses
  <2> QED BY <1>4, <2>1 DEF Types, ServerCloses, pyVars, mailVars, loopVars, evVars
<1>5. ASSUME SocketDrains PROVE Types'
  <2>1. full' \in BOOLEAN /\ mainEdge' \in BOOLEAN
    BY <1>5 DEF SocketDrains
  <2> QED BY <1>5, <2>1 DEF Types, SocketDrains, pyVars, mailVars, loopVars, evVars
<1> QED BY <1>1, <1>2, <1>3, <1>4, <1>5 DEF NetworkStep

\* The head of the loop keeps the types.
LEMMA HeadTypes ==
  ASSUME Types, ThreadLoopHead
  PROVE  Types'
<1>1. queued' \in Seq(Ids)
  <2>1. queued \in Seq(Ids) /\ codeq \in Seq(Ids)
    BY DEF Types
  <2> QED BY <2>1 DEF ThreadLoopHead
<1>2. ASSUME dropped PROVE Types'
  <2>1. Return("ok")
    BY <1>2 DEF ThreadLoopHead
  <2> QED BY <1>1, <1>2, <2>1, ReturnTypes DEF Types, ThreadLoopHead, pyVars, netVars
<1>3. ASSUME ~dropped PROVE Types'
  <2>1. sender' \in [Ids -> {"none", "queue", "map", "gone"}]
    BY <1>3 DEF Types, ThreadLoopHead
  <2>3. mail' = [id \in Ids |-> IF SettledBy(id) # {} THEN Append(mail[id], id)
                                                      ELSE mail[id]]
    BY <1>3, HeadMail
  <2>4. mail' \in [Ids -> Seq(Ids)]
    <3>1. ASSUME NEW id \in Ids
          PROVE  mail[id] \in Seq(Ids) /\ Append(mail[id], id) \in Seq(Ids)
      BY DEF Types
    <3> QED BY <2>3, <3>1
  <2>5. codeq' \in Seq(Ids) /\ handled' \in Nat /\ interest' \in {"RO", "RW"}
    BY <1>3 DEF Types, ThreadLoopHead, Parsed, FrameLen, Wanted
  <2>6. mainEdge' \in BOOLEAN
    BY <1>3 DEF Types, ThreadLoopHead
  <2> QED BY <1>1, <1>3, <2>1, <2>4, <2>5, <2>6
             DEF Types, ThreadLoopHead, pyVars, netVars, evVars
<1> QED BY <1>2, <1>3

\* The thread's other steps keep them, the readers being behind.
LEMMA ThreadTypes ==
  ASSUME Types, Bounds, ThreadStep
  PROVE  Types'
<1>1. ASSUME ThreadConnects PROVE Types'
  <2>1. \/ Return("err")
        \/ tpc' = "top" /\ UNCHANGED <<tres, codeq, sender, evVars>>
    BY <1>1 DEF ThreadConnects
  <2>2. EndTypes'
    BY <2>1, ReturnTypes DEF Types, EndTypes, evVars
  <2>3. mainEdge' \in BOOLEAN /\ outEdge' \in BOOLEAN
    BY <1>1 DEF Types, ThreadConnects, MainReady
  <2> QED BY <1>1, <2>2, <2>3
             DEF Types, EndTypes, ThreadConnects, pyVars, loopVars, netVars
<1>2. ASSUME ThreadChecksClose PROVE Types'
  <2>1. \/ Return("ok")
        \/ tpc' = "head" /\ UNCHANGED <<tres, codeq, sender, evVars>>
    BY <1>2 DEF ThreadChecksClose
  <2>2. EndTypes'
    BY <2>1, ReturnTypes DEF Types, EndTypes, evVars
  <2> QED BY <1>2, <2>2 DEF Types, EndTypes, ThreadChecksClose, pyVars,
                            loopVars, edgeVars, netVars
<1>3. ASSUME ThreadLoopHead PROVE Types'
  BY <1>3, HeadTypes
<1>4. ASSUME ThreadPolls PROVE Types'
  <2>1. mainEvent' \in {"none", "readable", "writable"} /\ outEvent' \in BOOLEAN
    BY <1>4 DEF ThreadPolls, Types
  <2> QED BY <1>4, <2>1 DEF Types, ThreadPolls, pyVars, mailVars, loopVars, netVars
<1>5. ASSUME ThreadWrites PROVE Types'
  <2>1. CASE eof /\ Return("err") /\ UNCHANGED <<wrote, full>>
    BY <2>1, <1>5, ReturnTypes DEF Types, ThreadWrites, pyVars, edgeVars
  <2>2. CASE /\ \E n \in IF "partial" \in MayHappen THEN 1 .. OutUnits ELSE {OutUnits} :
                  /\ wrote' = wrote + n
                  /\ full' = (n < OutUnits)
             /\ tpc' = "read" /\ mainEvent' = "readable"
             /\ UNCHANGED <<tres, codeq, sender, outEvent>>
    <3>1. /\ wrote \in Nat /\ OutUnits \in Int /\ wrote + OutUnits \in Nat
      BY DEF Types, OutUnits, FrameLen
    <3>2. PICK n \in IF "partial" \in MayHappen THEN 1 .. OutUnits ELSE {OutUnits} :
            wrote' = wrote + n /\ full' = (n < OutUnits)
      BY <2>2
    <3>3. wrote' \in Nat
      BY <3>1, <3>2
    <3>4. full' \in BOOLEAN
      BY <3>2
    <3> QED BY <2>2, <3>3, <3>4, <1>5 DEF Types, ThreadWrites, pyVars, edgeVars
  <2> QED BY <1>5, <2>1, <2>2 DEF ThreadWrites
<1>6. ASSUME ThreadReads PROVE Types'
  <2>1. readUnits' \in Nat
    <3>1. readUnits \in Nat /\ arrived \in Nat /\ readUnits <= arrived
      BY DEF Types, Bounds
    <3> QED BY <3>1, Units, <1>6 DEF ThreadReads
  <2>2. \/ Return("err")
        \/ /\ tpc' \in {"top", "batch"} /\ mainEvent' = "none"
           /\ UNCHANGED <<tres, codeq, sender, outEvent>>
    BY <1>6 DEF ThreadReads, NextInBatch
  <2>3. EndTypes'
    BY <2>2, ReturnTypes DEF Types, EndTypes
  <2> QED BY <2>1, <2>3, <1>6
             DEF Types, EndTypes, ThreadReads, pyVars, edgeVars, netVars
<1>7. ASSUME ThreadReadsOutput PROVE Types'
  <2> DEFINE units == outRead + OneRead(outArrived - outRead)
  <2>1. units \in Nat /\ units \div FrameLen \in Nat
    <3>1. outRead \in Nat /\ outArrived \in Nat /\ outRead <= outArrived
      BY DEF Types, Bounds
    <3>2. units \in Nat
      BY <3>1, Units
    <3> QED BY <3>2, Units
  <2>2. outRead' \in Nat /\ lines' \in Nat
    BY <2>1, <1>7 DEF Types, ThreadReadsOutput
  <2> HIDE DEF units
  <2>3. \/ Return("ok") \/ Return("err")
        \/ /\ tpc' \in {"top", "batch"} /\ outEvent' = FALSE
           /\ UNCHANGED <<tres, codeq, sender, mainEvent>>
    BY <1>7 DEF ThreadReadsOutput, NextInBatch
  <2>4. EndTypes'
    BY <2>3, ReturnTypes DEF Types, EndTypes
  <2> QED BY <2>2, <2>4, <1>7
             DEF Types, EndTypes, ThreadReadsOutput, pyVars, edgeVars, netVars
<1>8. ASSUME ThreadFinishes PROVE Types'
  BY <1>8 DEF Types, ThreadFinishes, pyVars, mailVars, loopVars, evVars,
              edgeVars, netVars
<1> QED BY <1>1, <1>2, <1>3, <1>4, <1>5, <1>6, <1>7, <1>8 DEF ThreadStep

-----------------------------------------------------------------------------
(* Readers *)

\* What appending does to the elements of a sequence.
LEMMA AppendElements ==
  ASSUME NEW s \in Seq(Ids), NEW e \in Ids
  PROVE  ElementsOf(Append(s, e)) = ElementsOf(s) \cup {e}
<1>1. /\ Len(Append(s, e)) = Len(s) + 1 /\ Len(s) \in Nat
      /\ \A i \in 1 .. Len(s) : Append(s, e)[i] = s[i]
      /\ Append(s, e)[Len(s) + 1] = e
  OBVIOUS
<1>2. 1 .. Len(s) + 1 = (1 .. Len(s)) \cup {Len(s) + 1}
  BY <1>1
<1> QED BY <1>1, <1>2 DEF ElementsOf

\* A concatenation has the elements of both sequences.
LEMMA ConcatElements ==
  ASSUME NEW s \in Seq(Ids), NEW t \in Seq(Ids)
  PROVE  ElementsOf(s \o t) = ElementsOf(s) \cup ElementsOf(t)
<1>1. /\ s \o t \in Seq(Ids) /\ Len(s \o t) = Len(s) + Len(t)
      /\ Len(s) \in Nat /\ Len(t) \in Nat
      /\ \A i \in 1 .. Len(s) + Len(t) :
           (s \o t)[i] = IF i <= Len(s) THEN s[i] ELSE t[i - Len(s)]
  BY ConcatProperties
<1>2. ElementsOf(s \o t) \subseteq ElementsOf(s) \cup ElementsOf(t)
  BY <1>1 DEF ElementsOf
<1>3. ElementsOf(s) \subseteq ElementsOf(s \o t)
  BY <1>1 DEF ElementsOf
<1>4. ElementsOf(t) \subseteq ElementsOf(s \o t)
  <2>1. ASSUME NEW j \in 1 .. Len(t) PROVE t[j] \in ElementsOf(s \o t)
    <3>1. /\ Len(s) + j \in 1 .. Len(s) + Len(t)
          /\ ~(Len(s) + j <= Len(s)) /\ (Len(s) + j) - Len(s) = j
      BY <1>1
    <3>2. (s \o t)[Len(s) + j] = t[j]
      BY <1>1, <3>1
    <3> QED BY <1>1, <3>1, <3>2 DEF ElementsOf
  <2> QED BY <2>1 DEF ElementsOf
<1> QED BY <1>2, <1>3, <1>4

\* The readers are left alone but by the reads, the head of the loop and what
\* the network brings.
LEMMA OtherReaders ==
  ASSUME Next
  PROVE  \/ ThreadReads \/ ThreadReadsOutput \/ ThreadLoopHead
         \/ \E id \in Ids : ServerResponds(id)
         \/ ResponseArrives \/ OutputArrives
         \/ UNCHANGED <<handled, readUnits, arrived, resps, outRead, outArrived>>
<1>1. ASSUME PythonStep
      PROVE  UNCHANGED <<handled, readUnits, arrived, resps, outRead, outArrived>>
  BY <1>1 DEF PythonStep, Eval, Wait, WaitReturns, WaitTimesOut, CheckThreadFails,
              NextOutput, Disconnect, DropClient, loopVars, netVars
<1>2. ASSUME \/ ThreadConnects \/ ThreadChecksClose \/ ThreadPolls
             \/ ThreadWrites \/ ThreadFinishes
      PROVE  UNCHANGED <<handled, readUnits, arrived, resps, outRead, outArrived>>
  BY <1>2 DEF ThreadConnects, ThreadChecksClose, ThreadPolls, ThreadWrites,
              ThreadFinishes, loopVars, netVars
<1>3. ASSUME ServerCloses \/ SocketDrains
      PROVE  UNCHANGED <<handled, readUnits, arrived, resps, outRead, outArrived>>
  BY <1>3 DEF ServerCloses, SocketDrains, loopVars
<1> QED BY <1>1, <1>2, <1>3 DEF Next, ThreadStep, NetworkStep

\* Every step keeps the readers behind.
LEMMA NextBounds ==
  ASSUME Types, Bounds, Next
  PROVE  Bounds'
<1>1. /\ handled \in Nat /\ readUnits \in Nat /\ arrived \in Nat
      /\ outRead \in Nat /\ outArrived \in Nat /\ resps \in Seq(Ids)
      /\ Len(resps) \in Nat
  BY DEF Types
<1>2. CASE ThreadReads
  <2>1. /\ readUnits' \in Nat /\ readUnits <= readUnits' /\ readUnits' <= arrived
    <3>1. /\ readUnits <= arrived
          /\ \/ readUnits' = readUnits + OneRead(arrived - readUnits)
             \/ readUnits' = readUnits
      BY <1>2 DEF ThreadReads, Bounds
    <3>2. /\ readUnits + OneRead(arrived - readUnits) \in Nat
          /\ readUnits + OneRead(arrived - readUnits) <= arrived
          /\ readUnits <= readUnits + OneRead(arrived - readUnits)
      BY <1>1, <3>1, Units
    <3> QED BY <1>1, <3>1, <3>2
  <2>2. readUnits \div FrameLen \in Nat /\ readUnits' \div FrameLen \in Nat
        /\ readUnits \div FrameLen <= readUnits' \div FrameLen
    BY <1>1, <2>1, Units
  <2>3. UNCHANGED <<handled, arrived, resps, outRead, outArrived>>
    BY <1>2 DEF ThreadReads, netVars
  <2> QED BY <1>1, <2>1, <2>2, <2>3 DEF Bounds, Parsed
<1>3. CASE ThreadReadsOutput
  <2>1. outRead' <= outArrived
    BY <1>1, <1>3, Units DEF ThreadReadsOutput, Bounds
  <2>2. UNCHANGED <<handled, readUnits, arrived, resps, outArrived>>
    BY <1>3 DEF ThreadReadsOutput, netVars
  <2> QED BY <2>1, <2>2 DEF Bounds, Parsed
<1>4. CASE ThreadLoopHead
  <2>1. handled' <= Parsed
    BY <1>1, <1>4, Units DEF ThreadLoopHead, Bounds, Parsed
  <2>2. UNCHANGED <<readUnits, arrived, resps, outRead, outArrived>>
    BY <1>4 DEF ThreadLoopHead, netVars
  <2> QED BY <2>1, <2>2 DEF Bounds, Parsed
<1>5. ASSUME NEW id \in Ids, ServerResponds(id) PROVE Bounds'
  <2>1. Len(resps') = Len(resps) + 1
    BY <1>1, <1>5 DEF ServerResponds
  <2>2. UNCHANGED <<handled, readUnits, arrived, outRead, outArrived>>
    BY <1>5 DEF ServerResponds, loopVars
  <2> QED BY <1>1, <2>1, <2>2 DEF Bounds, Parsed, FrameLen
<1>6. CASE ResponseArrives
  <2>1. PICK n \in arrived + 1 .. FrameLen * Len(resps) : arrived' = n
    BY <1>6 DEF ResponseArrives
  <2>2. UNCHANGED <<handled, readUnits, resps, outRead, outArrived>>
    BY <1>6 DEF ResponseArrives, loopVars
  <2> QED BY <1>1, <2>1, <2>2 DEF Bounds, Parsed, FrameLen
<1>7. CASE OutputArrives
  <2>1. outArrived' \in Nat /\ outArrived <= outArrived'
    BY <1>1, <1>7 DEF OutputArrives, FrameLen
  <2>2. UNCHANGED <<handled, readUnits, resps, outRead, arrived>>
    BY <1>7 DEF OutputArrives, loopVars
  <2> QED BY <1>1, <2>1, <2>2 DEF Bounds, Parsed
<1>8. CASE UNCHANGED <<handled, readUnits, arrived, resps, outRead, outArrived>>
  BY <1>8 DEF Bounds, Parsed
<1> QED BY <1>2, <1>3, <1>4, <1>5, <1>6, <1>7, <1>8, OtherReaders

\* The responses read are among those sent.
LEMMA ParsedBound ==
  ASSUME Types, Bounds
  PROVE  handled \in Nat /\ Parsed \in Nat /\ handled <= Parsed /\ Parsed <= Len(resps)
<1>1. /\ handled \in Nat /\ readUnits \in Nat /\ arrived \in Nat
      /\ Len(resps) \in Nat /\ readUnits <= FrameLen * Len(resps)
  BY DEF Types, Bounds, FrameLen
<1> QED BY <1>1 DEF Bounds, Parsed, FrameLen

-----------------------------------------------------------------------------
(* Futures *)

\* What the future of an id stands for is left alone.
FuturesKept == UNCHANGED <<issued, outcome, mail, queued, handled, resps>>

\* No sender moves, and the thread goes on as it was.
SendersStay == UNCHANGED <<sender, codeq>> /\ (Ended' <=> Ended)

\* The thread ends, and every sender is gone.
SendersGo ==
  /\ ~Ended /\ Ended' /\ codeq' = <<>>
  /\ sender' = [id \in Ids |-> IF sender[id] = "none" THEN "none" ELSE "gone"]

\* Most steps leave the futures alone, or only end the thread.
LEMMA OtherFutures ==
  ASSUME Next
  PROVE  \/ \E id \in Ids : \/ Eval(id) \/ WaitReturns(id) \/ WaitTimesOut(id)
                            \/ ServerResponds(id)
         \/ ThreadLoopHead
         \/ FuturesKept /\ (SendersStay \/ SendersGo)
<1>1. ASSUME \/ \E id \in Ids : Wait(id)
             \/ CheckThreadFails \/ NextOutput \/ Disconnect \/ DropClient
      PROVE  FuturesKept /\ SendersStay
  BY <1>1 DEF Wait, CheckThreadFails, NextOutput, Disconnect, DropClient,
              FuturesKept, SendersStay, Ended, mailVars, loopVars, netVars
<1>2. ASSUME ResponseArrives \/ OutputArrives \/ ServerCloses \/ SocketDrains
      PROVE  FuturesKept /\ SendersStay
  BY <1>2 DEF ResponseArrives, OutputArrives, ServerCloses, SocketDrains,
              FuturesKept, SendersStay, Ended, pyVars, mailVars, loopVars
<1>3. ASSUME ThreadPolls \/ ThreadFinishes
      PROVE  FuturesKept /\ SendersStay
  BY <1>3 DEF ThreadPolls, ThreadFinishes, FuturesKept, SendersStay, Ended,
              pyVars, mailVars, loopVars, netVars
<1>4. ASSUME ThreadConnects \/ ThreadChecksClose \/ ThreadWrites
             \/ ThreadReads \/ ThreadReadsOutput
      PROVE  FuturesKept /\ (SendersStay \/ SendersGo)
  <2>1. FuturesKept
    BY <1>4 DEF ThreadConnects, ThreadChecksClose, ThreadWrites, ThreadReads,
                ThreadReadsOutput, FuturesKept, pyVars, loopVars, netVars
  <2>2. ~Ended
    BY <1>4 DEF ThreadConnects, ThreadChecksClose, ThreadWrites, ThreadReads,
                ThreadReadsOutput, Ended
  <2>3. \/ Return("ok") \/ Return("err")
        \/ /\ tpc' \in {"top", "head", "read", "batch"}
           /\ UNCHANGED <<sender, codeq>>
    BY <1>4 DEF ThreadConnects, ThreadChecksClose, ThreadWrites, ThreadReads,
                ThreadReadsOutput, NextInBatch
  <2> QED BY <2>1, <2>2, <2>3 DEF Return, SendersStay, SendersGo, Ended
<1> QED BY <1>1, <1>2, <1>3, <1>4 DEF Next, PythonStep, ThreadStep, NetworkStep

\* Steps that leave the futures alone keep what is known of them.
LEMMA FuturesStay ==
  ASSUME Types, FutureInv, FuturesKept, SendersStay \/ SendersGo
  PROVE  Answers' /\ Futures'
<1>1. Answers'
  BY DEF FutureInv, Answers, FuturesKept, ElementsOf
<1>2. ASSUME NEW id \in Ids, SendersStay PROVE Placed(id)' /\ Settled(id)'
  BY <1>2 DEF FutureInv, Futures, Placed, Settled, FuturesKept, SendersStay, ElementsOf
<1>3. ASSUME NEW id \in Ids, SendersGo PROVE Placed(id)' /\ Settled(id)'
  <2>1. /\ Ended' /\ ElementsOf(codeq)' = {}
        /\ sender[id]' = IF sender[id] = "none" THEN "none" ELSE "gone"
    BY <1>3 DEF SendersGo, ElementsOf
  <2>2. Placed(id) /\ Settled(id)
    BY DEF FutureInv, Futures
  <2> QED BY <2>1, <2>2 DEF Placed, Settled, FuturesKept, ElementsOf
<1> QED BY <1>1, <1>2, <1>3 DEF Futures

\* The call of an eval places a new id in the channel.
LEMMA FuturesEval ==
  ASSUME Types, FutureInv, NEW e \in Ids, Eval(e)
  PROVE  Answers' /\ Futures'
<1>1. /\ e \notin issued /\ ~Ended /\ ~Ended'
      /\ issued' = issued \cup {e}
      /\ UNCHANGED <<outcome, mail, queued, handled, resps>>
  BY DEF Eval, loopVars, netVars, Ended
<1>2. /\ ElementsOf(codeq)' = ElementsOf(codeq) \cup {e}
  <2>1. codeq \in Seq(Ids)
    BY DEF Types
  <2> QED BY <2>1, AppendElements DEF Eval
<1>3. ASSUME NEW id \in Ids
      PROVE  sender[id]' = IF id = e THEN "queue" ELSE sender[id]
  BY DEF Eval, Types
<1>4. Answers'
  BY <1>1 DEF FutureInv, Answers, ElementsOf
<1>5. ASSUME NEW id \in Ids PROVE Placed(id)' /\ Settled(id)'
  <2>1. Placed(id) /\ Settled(id) /\ Placed(e) /\ Settled(e)
    BY DEF FutureInv, Futures
  <2>2. CASE id = e
    <3>1. sender[e] = "none" /\ sender[e]' = "queue" /\ e \in ElementsOf(codeq)'
      BY <1>1, <1>2, <1>3, <2>1 DEF Placed
    <3>2. ElementsOf(queued)' = ElementsOf(queued)
      BY <1>1 DEF ElementsOf
    <3> QED BY <1>1, <2>1, <2>2, <3>1, <3>2 DEF Placed, Settled
  <2>3. CASE id # e
    <3>1. /\ sender[id]' = sender[id]
          /\ id \in ElementsOf(codeq)' <=> id \in ElementsOf(codeq)
          /\ id \in issued' <=> id \in issued
      BY <1>1, <1>2, <1>3, <2>3
    <3>2. ElementsOf(queued)' = ElementsOf(queued)
      BY <1>1 DEF ElementsOf
    <3> QED BY <1>1, <2>1, <3>1, <3>2 DEF Placed, Settled
  <2> QED BY <2>2, <2>3
<1> QED BY <1>4, <1>5 DEF Futures

\* The end of a wait takes the future's result, or finds it has none.
LEMMA FuturesWait ==
  ASSUME Types, FutureInv, NEW w \in Ids, WaitReturns(w) \/ WaitTimesOut(w)
  PROVE  Answers' /\ Futures'
<1>1. /\ UNCHANGED <<issued, sender, codeq, queued, handled, resps, tpc>>
  BY DEF WaitReturns, WaitTimesOut, mailVars, loopVars, netVars
<1>2. Answers'
  BY <1>1 DEF FutureInv, Answers, ElementsOf
<1>3. ASSUME NEW id \in Ids, id # w
      PROVE  mail[id]' = mail[id] /\ outcome[id]' = outcome[id]
  BY <1>3 DEF WaitReturns, WaitTimesOut, Types, mailVars
<1>4. Placed(w) /\ Settled(w)
  BY DEF FutureInv, Futures
<1>5. \/ /\ mail[w] = <<w>> /\ mail[w]' = <<>> /\ outcome[w]' = w
      \/ /\ mail[w] = <<>> /\ mail[w]' = <<>>
         /\ outcome[w]' \in {"closed", "timeout"}
  <2>1. mail \in [Ids -> Seq(Ids)] /\ outcome \in [Ids -> Outcomes]
    BY DEF Types
  <2>2. mail[w] # <<>> => mail[w] = <<w>> /\ Head(mail[w]) = w /\ Tail(mail[w]) = <<>>
    <3>1. mail[w] # <<>> => mail[w] = <<w>>
      BY <1>4 DEF Settled
    <3>2. Head(<<w>>) = w /\ Tail(<<w>>) = <<>>
      OBVIOUS
    <3> QED BY <3>1, <3>2, Zenon
  <2>3. CASE WaitReturns(w) /\ mail[w] # <<>>
    BY <2>1, <2>2, <2>3 DEF WaitReturns
  <2>4. CASE WaitReturns(w) /\ mail[w] = <<>>
    BY <2>1, <2>4 DEF WaitReturns
  <2>5. CASE WaitTimesOut(w)
    BY <2>1, <2>5 DEF WaitTimesOut, mailVars
  <2> QED BY <2>3, <2>4, <2>5
<1>6. outcome[w]' # "none" /\ (outcome[w]' \in Ids => outcome[w]' = w)
  BY <1>5, IdsAssumption
<1>7. sender[w] # "gone" => mail[w]' = <<>> /\ outcome[w]' \notin Ids
  BY <1>4, <1>5, IdsAssumption DEF Placed
<1>8. ASSUME NEW id \in Ids PROVE Placed(id)' /\ Settled(id)'
  <2>1. Placed(id) /\ Settled(id)
    BY DEF FutureInv, Futures
  <2>2. /\ ElementsOf(queued)' = ElementsOf(queued)
        /\ ElementsOf(codeq)' = ElementsOf(codeq)
        /\ (Ended' <=> Ended)
    BY <1>1 DEF ElementsOf, Ended
  <2>3. CASE id = w
    BY <1>1, <1>5, <1>6, <1>7, <2>1, <2>2, <2>3 DEF Placed, Settled
  <2>4. CASE id # w
    BY <1>1, <1>3, <2>1, <2>2, <2>4 DEF Placed, Settled
  <2> QED BY <2>3, <2>4
<1> QED BY <1>2, <1>8 DEF Futures

\* A response is of a request the server has, and not handled yet.
LEMMA FuturesRespond ==
  ASSUME Types, FutureInv, NEW e \in Ids, ServerResponds(e)
  PROVE  Answers' /\ Futures'
<1>1. /\ UNCHANGED <<issued, sender, codeq, queued, handled, tpc, mail, outcome>>
      /\ resps \in Seq(Ids) /\ resps' = Append(resps, e)
  BY DEF ServerResponds, Types, pyVars, mailVars, loopVars
<1>2. Answers'
  <2>1. e \in ElementsOf(queued)
    BY DEF ServerResponds, Received, ElementsOf
  <2>2. ElementsOf(resps)' = ElementsOf(resps) \cup {e}
    BY <1>1, AppendElements
  <2>3. ElementsOf(queued)' = ElementsOf(queued)
    BY <1>1 DEF ElementsOf
  <2> QED BY <2>1, <2>2, <2>3 DEF FutureInv, Answers
<1>3. ASSUME NEW i \in 1 .. handled PROVE resps[i]' = resps[i]
  <2>1. handled \in Nat /\ handled <= Len(resps) /\ Len(resps) \in Nat
    BY <1>1, ParsedBound DEF FutureInv
  <2> QED BY <1>1, <2>1
<1>4. ASSUME NEW id \in Ids PROVE Placed(id)' /\ Settled(id)'
  <2>1. Placed(id) /\ Settled(id)
    BY DEF FutureInv, Futures
  <2>2. /\ ElementsOf(queued)' = ElementsOf(queued)
        /\ ElementsOf(codeq)' = ElementsOf(codeq)
        /\ (Ended' <=> Ended)
    BY <1>1 DEF ElementsOf, Ended
  <2> QED BY <1>1, <1>3, <2>1, <2>2 DEF Placed, Settled
<1> QED BY <1>2, <1>4 DEF Futures

\* The head of the loop moves the queued code to the outbuffer, and hands the
\* responses that were read to the futures they name.
LEMMA FuturesHead ==
  ASSUME Types, FutureInv, ThreadLoopHead
  PROVE  Answers' /\ Futures'
<1>1. UNCHANGED <<issued, outcome, resps>> /\ ~Ended
  BY DEF ThreadLoopHead, pyVars, netVars, Ended
<1>2. ElementsOf(queued)' = ElementsOf(queued) \cup ElementsOf(codeq)
  <2>1. queued \in Seq(Ids) /\ codeq \in Seq(Ids) /\ queued' = queued \o codeq
    BY DEF Types, ThreadLoopHead
  <2> QED BY <2>1, ConcatElements
<1>3. Answers'
  <2>1. ElementsOf(resps)' = ElementsOf(resps)
    BY <1>1 DEF ElementsOf
  <2> QED BY <1>2, <2>1 DEF FutureInv, Answers
<1>4. ElementsOf(codeq)' = {}
  BY DEF ThreadLoopHead, Return, ElementsOf
<1>5. ASSUME dropped, NEW id \in Ids PROVE Placed(id)' /\ Settled(id)'
  <2>1. Placed(id) /\ Settled(id)
    BY DEF FutureInv, Futures
  <2>2. /\ Ended' /\ UNCHANGED <<mail, handled>>
        /\ sender[id]' = IF sender[id] = "none" THEN "none" ELSE "gone"
    BY <1>5 DEF ThreadLoopHead, Return, Ended
  <2>3. Placed(id)'
    BY <1>1, <1>2, <1>4, <2>1, <2>2 DEF Placed
  <2>4. Settled(id)'
    BY <1>1, <2>1, <2>2 DEF Settled
  <2> QED BY <2>3, <2>4
<1>6. ASSUME ~dropped, NEW id \in Ids PROVE Placed(id)' /\ Settled(id)'
  <2>1. Placed(id) /\ Settled(id)
    BY DEF FutureInv, Futures
  <2>2. ~Ended' /\ handled' = Parsed
    BY <1>6 DEF ThreadLoopHead, Ended
  <2>3. sender[id]' = IF SettledBy(id) # {} THEN "gone"
                      ELSE IF id \in InMap THEN "map" ELSE sender[id]
    BY <1>6 DEF ThreadLoopHead
  <2>4. mail[id]' = IF SettledBy(id) # {} THEN Append(mail[id], id) ELSE mail[id]
    BY <1>6, HeadMail
  <2>5. id \in InMap <=> sender[id] \in {"map", "queue"}
    BY <2>1 DEF InMap, Placed
  <2>6. CASE SettledBy(id) # {}
    <3>1. mail[id] = <<>> /\ outcome[id] \notin Ids /\ sender[id] # "none"
      BY <2>1, <2>5, <2>6, OwnIdSettles DEF Placed
    <3>2. mail[id]' = <<id>> /\ sender[id]' = "gone"
      BY <2>3, <2>4, <2>6, <3>1
    <3>3. Placed(id)'
      BY <1>1, <1>4, <2>1, <3>1, <3>2 DEF Placed
    <3>4. Settled(id)'
      BY <1>1, <3>1, <3>2 DEF Settled
    <3> QED BY <3>3, <3>4
  <2>7. CASE SettledBy(id) = {} /\ id \in InMap
    <3>1. mail[id]' = <<>> /\ outcome[id] \notin Ids /\ sender[id]' = "map"
      BY <2>1, <2>3, <2>4, <2>5, <2>7 DEF Placed
    <3>2. id \in ElementsOf(queued)' /\ id \in issued
      BY <1>2, <2>1, <2>5, <2>7 DEF Placed
    <3>3. ASSUME NEW i \in 1 .. Parsed PROVE resps[i] # id
      <4>1. handled \in Nat /\ Parsed \in Nat /\ handled <= Parsed /\ Parsed <= Len(resps)
        BY ParsedBound DEF FutureInv
      <4>2. CASE i \in 1 .. handled
        <5>1. CASE sender[id] = "map"
          BY <2>1, <4>2, <5>1 DEF Placed
        <5>2. CASE sender[id] = "queue"
          <6>1. resps[i] \in ElementsOf(queued)
            BY <4>1 DEF FutureInv, Answers, ElementsOf
          <6>2. id \notin ElementsOf(queued)
            BY <2>1, <5>2 DEF Placed
          <6> QED BY <6>1, <6>2
        <5> QED BY <2>5, <2>7, <5>1, <5>2
      <4>3. CASE i \in Unhandled
        BY <2>7, <4>3 DEF SettledBy
      <4>4. i \in 1 .. handled \/ i \in Unhandled
        BY <4>1 DEF Unhandled
      <4> QED BY <4>2, <4>3, <4>4
    <3>4. Placed(id)'
      BY <1>1, <1>4, <2>2, <3>1, <3>2, <3>3 DEF Placed
    <3>5. Settled(id)'
      BY <1>1, <3>1 DEF Settled
    <3> QED BY <3>4, <3>5
  <2>8. CASE SettledBy(id) = {} /\ id \notin InMap
    <3>1. /\ sender[id]' = sender[id] /\ sender[id] \in {"none", "gone"}
          /\ mail[id]' = mail[id] /\ id \notin ElementsOf(codeq)
      <4>1. sender[id] \in {"none", "queue", "map", "gone"}
        BY DEF Types
      <4>2. id \notin ElementsOf(codeq)
        BY <2>8 DEF InMap
      <4> QED BY <2>3, <2>4, <2>5, <2>8, <4>1, <4>2
    <3>2. Placed(id)'
      BY <1>1, <1>2, <1>4, <2>1, <3>1 DEF Placed
    <3>3. Settled(id)'
      BY <1>1, <2>1, <3>1 DEF Settled
    <3> QED BY <3>2, <3>3
  <2> QED BY <2>6, <2>7, <2>8
<1> QED BY <1>3, <1>5, <1>6 DEF Futures

\* The inductive invariant of the futures.
LEMMA FutureInvariance == Spec => [](Types /\ FutureInv)
<1>1. Init => Types /\ FutureInv
  <2>1. ASSUME Init PROVE Types
    <3>1. <<>> \in Seq(Ids)
      OBVIOUS
    <3>2. /\ outcome \in [Ids -> Outcomes]
          /\ sender \in [Ids -> {"none", "queue", "map", "gone"}]
          /\ mail \in [Ids -> Seq(Ids)]
      BY <2>1, <3>1 DEF Init, Outcomes
    <3>3. /\ handle \in BOOLEAN /\ closeSent \in BOOLEAN /\ dropped \in BOOLEAN
          /\ mainEdge \in BOOLEAN /\ outEdge \in BOOLEAN /\ outEvent \in BOOLEAN
          /\ full \in BOOLEAN /\ eof \in BOOLEAN /\ outEof \in BOOLEAN
      BY <2>1 DEF Init
    <3> QED BY <2>1, <3>1, <3>2, <3>3 DEF Init, Types
  <2>2. ASSUME Init PROVE Bounds /\ Answers
    <3>1. Len(<<>>) = 0 /\ 0 \div 2 = 0 /\ ElementsOf(<<>>) = {}
      BY DEF ElementsOf
    <3> QED BY <2>2, <3>1 DEF Init, Bounds, Answers, Parsed, FrameLen
  <2>3. ASSUME Init, NEW id \in Ids PROVE Placed(id) /\ Settled(id)
    <3>1. /\ sender[id] = "none" /\ mail[id] = <<>> /\ outcome[id] = "none"
          /\ ElementsOf(codeq) = {} /\ ElementsOf(queued) = {}
      BY <2>3 DEF Init, ElementsOf
    <3> QED BY <3>1, IdsAssumption DEF Placed, Settled
  <2> QED BY <2>1, <2>2, <2>3 DEF FutureInv, Futures
<1>2. Types /\ FutureInv /\ [Next]_vars => Types' /\ FutureInv'
  <2> SUFFICES ASSUME Types, FutureInv, [Next]_vars PROVE Types' /\ FutureInv'
    OBVIOUS
  <2>1. CASE Next
    <3>1. Types'
      BY <2>1, PythonTypes, NetworkTypes, ThreadTypes DEF Next, FutureInv
    <3>2. Bounds'
      BY <2>1, NextBounds DEF FutureInv
    <3>3. Answers' /\ Futures'
      BY <2>1, OtherFutures, FuturesEval, FuturesWait, FuturesRespond,
         FuturesHead, FuturesStay
    <3> QED BY <3>1, <3>2, <3>3 DEF FutureInv
  <2>2. CASE UNCHANGED vars
    <3>1. /\ UNCHANGED <<pyVars, codeq, mailVars, lines, tpc, tres, loopVars, evVars,
                         edgeVars, netVars>>
      BY <2>2 DEF vars
    <3>2. Types'
      BY <3>1 DEF Types, pyVars, mailVars, loopVars, evVars, edgeVars, netVars
    <3>3. Bounds'
      BY <3>1 DEF FutureInv, Bounds, Parsed, loopVars, netVars
    <3>4. FuturesKept /\ SendersStay
      BY <3>1 DEF FuturesKept, SendersStay, Ended, pyVars, mailVars, loopVars, netVars
    <3> QED BY <3>2, <3>3, <3>4, FuturesStay DEF FutureInv
  <2> QED BY <2>1, <2>2
<1> QED BY <1>1, <1>2, PTL DEF Spec

\* Every variable of the client keeps its type, and the readers stay behind
\* what has arrived (client/client/mod.rs, mainstream.rs:79-117).
THEOREM ClientTypes == Spec => []TypeOK
<1>1. Types /\ FutureInv => TypeOK
  BY DEF FutureInv, TypeOK
<1> QED BY <1>1, FutureInvariance, PTL

\* A future is given its own result, once, in whatever order responses come
\* and codes are queued (mod.rs:221-233).
THEOREM ResultIsOwn == Spec => []OwnResultOnce
<1>1. Types /\ FutureInv => OwnResultOnce
  BY DEF FutureInv, Futures, Settled, OwnResultOnce
<1> QED BY <1>1, FutureInvariance, PTL

\* The sender of a future is where its code or request is, with no response to
\* it passed over, and none outlives the thread (mod.rs:206-233).
THEOREM FuturesRemembered == Spec => []NoFutureForgotten
<1>1. Types /\ FutureInv => NoFutureForgotten
  <2> SUFFICES ASSUME Types, FutureInv, NEW id \in issued
               PROVE  /\ sender[id] = "queue" => ~Ended /\ id \in ElementsOf(codeq)
                      /\ sender[id] = "map" =>
                           /\ ~Ended /\ id \in ElementsOf(queued)
                           /\ \A i \in 1 .. handled : resps[i] # id
                      /\ sender[id] = "gone" =>
                           Ended \/ mail[id] # <<>> \/ outcome[id] # "none"
    BY DEF NoFutureForgotten
  <2>1. id \in Ids
    BY DEF Types
  <2>2. Placed(id) /\ Settled(id)
    BY <2>1 DEF FutureInv, Futures
  <2> QED BY <2>2 DEF Placed, Settled
<1> QED BY <1>1, FutureInvariance, PTL

-----------------------------------------------------------------------------
(* The error of the thread *)

\* Nothing but check_thread raises an error, and a thread that has finished
\* stays as it ended.
LEMMA NextRaised ==
  ASSUME Types, Raised, Next
  PROVE  Raised'
<1>1. ASSUME CheckThreadFails PROVE Raised'
  <2>1. /\ reported = 0 /\ tpc' = "finished" /\ tres' = tres /\ ~handle'
        /\ reported' = IF tres = "err" THEN reported + 1 ELSE reported
    BY <1>1 DEF CheckThreadFails, Raised
  <2> QED BY <2>1 DEF Raised
<1>2. ASSUME DropClient PROVE Raised'
  <2>1. ~handle' /\ UNCHANGED <<reported, tres, tpc>>
    BY <1>2 DEF DropClient
  <2> QED BY <2>1 DEF Raised
<1>3. ASSUME \/ \E id \in Ids : Eval(id) \/ Wait(id) \/ WaitReturns(id) \/ WaitTimesOut(id)
             \/ NextOutput \/ Disconnect \/ NetworkStep
      PROVE  UNCHANGED <<handle, reported, tres, tpc>>
  BY <1>3 DEF Eval, Wait, WaitReturns, WaitTimesOut, NextOutput, Disconnect,
              NetworkStep, ServerResponds, ResponseArrives, OutputArrives,
              ServerCloses, SocketDrains, pyVars
<1>4. ASSUME ThreadStep
      PROVE  UNCHANGED <<handle, reported>> /\ tpc # "finished"
  BY <1>4 DEF ThreadStep, ThreadConnects, ThreadChecksClose, ThreadLoopHead,
              ThreadPolls, ThreadWrites, ThreadReads, ThreadReadsOutput,
              ThreadFinishes, pyVars
<1>5. ASSUME UNCHANGED <<handle, reported, tres, tpc>> PROVE Raised'
  BY <1>5 DEF Raised
<1>6. ASSUME UNCHANGED <<handle, reported>>, tpc # "finished" PROVE Raised'
  BY <1>6 DEF Raised
<1> QED BY <1>1, <1>2, <1>3, <1>4, <1>5, <1>6 DEF Next, PythonStep

\* The error is raised to the caller once at most, and only of a thread that
\* has finished with it (mod.rs:92-119).
THEOREM RaisedOnce == Spec => []ErrorRaisedOnce
<1>1. Init => Raised
  BY DEF Init, Raised
<1>2. Types /\ Raised /\ [Next]_vars => Raised'
  <2> SUFFICES ASSUME Types, Raised, [Next]_vars PROVE Raised'
    OBVIOUS
  <2>1. CASE UNCHANGED vars
    BY <2>1 DEF vars, pyVars, Raised
  <2> QED BY <2>1, NextRaised
<1>3. Raised => ErrorRaisedOnce
  BY DEF Raised, ErrorRaisedOnce
<1> QED BY <1>1, <1>2, <1>3, FutureInvariance, PTL DEF Spec

-----------------------------------------------------------------------------
(* The session as its caller sees it *)

\* Responses that were handled.
Delivered == {resps[i] : i \in 1 .. handled}

\* No more is written than was queued, requests are answered once, and the
\* futures that were given a result are those whose response was handled.
CallsInv ==
  /\ wrote <= FrameLen * Len(queued)
  /\ \A i, j \in 1 .. Len(resps) : resps[i] = resps[j] => i = j
  /\ \A id \in Ids : /\ mail[id] # <<>> => id \in Delivered
                     /\ sender[id] = "gone" /\ ~Ended => id \in Delivered

\* The client as the lemmas about it find it.
ClientInv == Types /\ FutureInv /\ CallsInv

\* A step that writes does nothing else to the session.
LEMMA WriteSteps ==
  ASSUME ClientInv, Next, wrote' # wrote
  PROVE  /\ FuturesKept /\ UNCHANGED <<sender, codeq>> /\ ~Ended /\ ~Ended'
         /\ wrote' \in wrote + 1 .. FrameLen * Len(queued)
<1>1. ThreadWrites
  <2>1. ASSUME PythonStep \/ NetworkStep
        PROVE  wrote' = wrote
    BY <2>1 DEF PythonStep, Eval, Wait, WaitReturns, WaitTimesOut, CheckThreadFails,
                NextOutput, Disconnect, DropClient, NetworkStep, ServerResponds,
                ResponseArrives, OutputArrives, ServerCloses, SocketDrains, loopVars
  <2>2. ASSUME \/ ThreadConnects \/ ThreadChecksClose \/ ThreadLoopHead \/ ThreadPolls
               \/ ThreadReads \/ ThreadReadsOutput \/ ThreadFinishes
        PROVE  wrote' = wrote
    BY <2>2 DEF ThreadConnects, ThreadChecksClose, ThreadLoopHead, ThreadPolls,
                ThreadReads, ThreadReadsOutput, ThreadFinishes, loopVars
  <2> QED BY <2>1, <2>2 DEF Next, ThreadStep
<1>2. PICK n \in IF "partial" \in MayHappen THEN 1 .. OutUnits ELSE {OutUnits} :
        wrote' = wrote + n
  BY <1>1 DEF ThreadWrites
<1>3. /\ tpc = "batch" /\ tpc' = "read" /\ UNCHANGED <<sender, codeq>>
      /\ FuturesKept
  BY <1>1 DEF ThreadWrites, FuturesKept, pyVars
<1>4. /\ wrote \in Nat /\ Len(queued) \in Nat /\ wrote <= FrameLen * Len(queued)
      /\ OutUnits = FrameLen * Len(queued) - wrote
  BY DEF ClientInv, Types, CallsInv, OutUnits
<1>5. n \in 1 .. OutUnits
  BY <1>2, <1>4 DEF FrameLen
<1> QED BY <1>2, <1>3, <1>4, <1>5 DEF Ended, FrameLen

\* What is handled has been sent, so more responses do not change it.
LEMMA DeliveredKept ==
  ASSUME ClientInv, NEW e \in Ids, ServerResponds(e)
  PROVE  Delivered' = Delivered
<1>1. /\ resps \in Seq(Ids) /\ resps' = Append(resps, e) /\ handled' = handled
      /\ handled \in Nat /\ handled <= Len(resps) /\ Len(resps) \in Nat
  BY ParsedBound DEF ServerResponds, ClientInv, FutureInv, Types, loopVars
<1>2. \A i \in 1 .. handled : resps'[i] = resps[i]
  BY <1>1
<1> QED BY <1>1, <1>2 DEF Delivered

\* The head of the loop handles the responses read, and nothing else.
LEMMA HeadDelivers ==
  ASSUME ClientInv, ThreadLoopHead, ~dropped
  PROVE  /\ Delivered' = Delivered \cup {resps[i] : i \in Unhandled}
         /\ \A i \in Unhandled : i \in 1 .. Len(resps) /\ resps[i] \notin Delivered
<1>1. /\ handled \in Nat /\ Parsed \in Nat /\ handled <= Parsed /\ Parsed <= Len(resps)
      /\ Len(resps) \in Nat /\ handled' = Parsed /\ resps' = resps
  BY ParsedBound DEF ClientInv, FutureInv, Types, ThreadLoopHead, netVars
<1>2. 1 .. Parsed = (1 .. handled) \cup Unhandled
  BY <1>1 DEF Unhandled
<1>3. ASSUME NEW i \in Unhandled
      PROVE  i \in 1 .. Len(resps) /\ resps[i] \notin Delivered
  <2>1. i \in 1 .. Len(resps) /\ i \notin 1 .. handled
    BY <1>1 DEF Unhandled
  <2>2. \A j \in 1 .. handled : j \in 1 .. Len(resps)
    BY <1>1
  <2> QED BY <2>1, <2>2 DEF ClientInv, CallsInv, Delivered
<1> QED BY <1>1, <1>2, <1>3 DEF Delivered

\* Steps that leave the futures alone, or end the thread.
LEMMA CallsStay ==
  ASSUME ClientInv, FuturesKept, SendersStay \/ SendersGo,
         wrote' <= FrameLen * Len(queued)
  PROVE  CallsInv'
<1>1. Delivered' = Delivered
  BY DEF FuturesKept, Delivered
<1>2. ASSUME NEW id \in Ids
      PROVE  /\ mail[id]' # <<>> => id \in Delivered
             /\ sender[id]' = "gone" /\ ~Ended' => id \in Delivered
  BY DEF ClientInv, CallsInv, FuturesKept, SendersStay, SendersGo
<1> QED BY <1>1, <1>2 DEF ClientInv, CallsInv, FuturesKept

\* The call of an eval gives its future a sender.
LEMMA CallsEval ==
  ASSUME ClientInv, NEW e \in Ids, Eval(e)
  PROVE  CallsInv'
<1>1. /\ UNCHANGED <<wrote, queued, resps, handled, mail, tpc>>
      /\ \A id \in Ids : sender[id]' = IF id = e THEN "queue" ELSE sender[id]
  BY DEF Eval, ClientInv, Types, loopVars, netVars
<1>2. Delivered' = Delivered
  BY <1>1 DEF Delivered
<1> QED BY <1>1, <1>2 DEF ClientInv, CallsInv, Ended

\* A wait that returns takes the only result there is.
LEMMA WaitTakes ==
  ASSUME ClientInv, NEW w \in Ids, WaitReturns(w)
  PROVE  /\ \A id \in Ids \ {w} : mail[id]' = mail[id]
         /\ mail[w] \in {<<>>, <<w>>} /\ mail[w]' = <<>>
<1>1. mail \in [Ids -> Seq(Ids)] /\ mail[w] \in {<<>>, <<w>>}
  BY DEF ClientInv, Types, FutureInv, Futures, Settled
<1>2. Tail(<<w>>) = <<>>
  OBVIOUS
<1>3. CASE mail[w] = <<>>
  BY <1>1, <1>3 DEF WaitReturns
<1>4. CASE mail[w] # <<>>
  <2>1. mail' = [mail EXCEPT ![w] = Tail(mail[w])]
    BY <1>4 DEF WaitReturns
  <2> QED BY <1>1, <1>2, <1>4, <2>1
<1> QED BY <1>1, <1>3, <1>4

\* The end of a wait gives nothing to anybody else.
LEMMA CallsWait ==
  ASSUME ClientInv, NEW w \in Ids, WaitReturns(w) \/ WaitTimesOut(w)
  PROVE  CallsInv'
<1>1. UNCHANGED <<wrote, queued, resps, handled, sender, tpc>>
  BY DEF WaitReturns, WaitTimesOut, mailVars, loopVars, netVars
<1>2. \A id \in Ids : mail[id]' # <<>> => mail[id] # <<>>
  BY WaitTakes DEF WaitTimesOut, mailVars
<1>3. Delivered' = Delivered
  BY <1>1 DEF Delivered
<1> QED BY <1>1, <1>2, <1>3 DEF ClientInv, CallsInv, Ended

\* The server answers a request it has not answered.
LEMMA CallsRespond ==
  ASSUME ClientInv, NEW e \in Ids, ServerResponds(e)
  PROVE  CallsInv'
<1>1. /\ UNCHANGED <<wrote, queued, sender, mail, tpc>>
      /\ resps \in Seq(Ids) /\ resps' = Append(resps, e) /\ e \notin ElementsOf(resps)
  BY DEF ServerResponds, ClientInv, Types, mailVars, loopVars
<1>2. ASSUME NEW i \in 1 .. Len(resps'), NEW j \in 1 .. Len(resps'),
             resps'[i] = resps'[j]
      PROVE  i = j
  <2>1. /\ Len(resps') = Len(resps) + 1 /\ Len(resps) \in Nat
        /\ \A k \in 1 .. Len(resps) : resps'[k] = resps[k] /\ resps[k] # e
        /\ resps'[Len(resps) + 1] = e
    BY <1>1 DEF ElementsOf
  <2>2. CASE i \in 1 .. Len(resps) /\ j \in 1 .. Len(resps)
    BY <1>2, <2>1, <2>2 DEF ClientInv, CallsInv
  <2>3. CASE i = Len(resps) + 1 \/ j = Len(resps) + 1
    BY <1>2, <2>1, <2>3
  <2> QED BY <2>1, <2>2, <2>3
<1>3. Delivered' = Delivered
  BY DeliveredKept
<1> QED BY <1>1, <1>2, <1>3 DEF ClientInv, CallsInv, Ended

\* The head of the loop gives results to the futures whose responses it handles.
LEMMA CallsHead ==
  ASSUME ClientInv, ThreadLoopHead
  PROVE  CallsInv'
<1>1. UNCHANGED <<wrote, resps>> /\ ~Ended
  BY DEF ThreadLoopHead, Ended, netVars
<1>2. wrote' <= FrameLen * Len(queued')
  <2>1. queued \in Seq(Ids) /\ codeq \in Seq(Ids) /\ queued' = queued \o codeq
    BY DEF ClientInv, Types, ThreadLoopHead
  <2>2. Len(queued') = Len(queued) + Len(codeq) /\ Len(queued) \in Nat /\ Len(codeq) \in Nat
    BY <2>1, ConcatProperties
  <2>3. wrote \in Nat /\ wrote <= FrameLen * Len(queued)
    BY DEF ClientInv, Types, CallsInv
  <2> QED BY <1>1, <2>2, <2>3 DEF FrameLen
<1>3. ASSUME dropped, NEW id \in Ids
      PROVE  /\ mail[id]' # <<>> => id \in Delivered'
             /\ sender[id]' = "gone" /\ ~Ended' => id \in Delivered'
  <2>1. UNCHANGED <<mail, handled>> /\ Ended'
    BY <1>3 DEF ThreadLoopHead, Return, Ended
  <2> QED BY <1>1, <2>1 DEF ClientInv, CallsInv, Delivered
<1>4. ASSUME ~dropped, NEW id \in Ids
      PROVE  /\ mail[id]' # <<>> => id \in Delivered'
             /\ sender[id]' = "gone" /\ ~Ended' => id \in Delivered'
  <2>1. /\ sender[id]' = IF SettledBy(id) # {} THEN "gone"
                         ELSE IF id \in InMap THEN "map" ELSE sender[id]
        /\ mail[id]' = IF SettledBy(id) # {} THEN Append(mail[id], id) ELSE mail[id]
    BY <1>4, HeadMail DEF ThreadLoopHead
  <2>2. Delivered' = Delivered \cup {resps[i] : i \in Unhandled}
    BY <1>4, HeadDelivers
  <2>3. CASE SettledBy(id) # {}
    <3>1. id \in {resps[i] : i \in Unhandled}
      BY <2>3, OwnIdSettles
    <3> QED BY <2>2, <3>1
  <2>4. CASE SettledBy(id) = {}
    BY <1>1, <2>1, <2>2, <2>4 DEF ClientInv, CallsInv
  <2> QED BY <2>3, <2>4
<1> QED BY <1>1, <1>2, <1>3, <1>4 DEF ClientInv, CallsInv

\* The inductive invariant of the refinement.
LEMMA ClientInvariance == Spec => []ClientInv
<1>1. Init => CallsInv
  <2> SUFFICES ASSUME Init PROVE CallsInv
    OBVIOUS
  <2>1. /\ wrote = 0 /\ Len(queued) = 0 /\ Len(resps) = 0
        /\ \A id \in Ids : mail[id] = <<>> /\ sender[id] = "none"
    BY EmptySeq DEF Init
  <2> QED BY <2>1 DEF CallsInv, FrameLen
<1>2. ClientInv /\ [Next]_vars => CallsInv'
  <2> SUFFICES ASSUME ClientInv, [Next]_vars PROVE CallsInv'
    OBVIOUS
  <2>1. wrote \in Nat /\ Len(queued) \in Nat /\ wrote <= FrameLen * Len(queued)
    BY DEF ClientInv, Types, CallsInv
  <2>2. CASE Next /\ wrote' # wrote
    <3>1. /\ FuturesKept /\ SendersStay /\ wrote' <= FrameLen * Len(queued)
      BY <2>1, <2>2, WriteSteps DEF SendersStay
    <3> QED BY <3>1, CallsStay
  <2>3. CASE Next /\ wrote' = wrote
    <3>1. wrote' <= FrameLen * Len(queued)
      BY <2>1, <2>3
    <3> QED BY <2>3, <3>1, OtherFutures, CallsStay, CallsEval, CallsWait,
               CallsRespond, CallsHead
  <2>4. CASE UNCHANGED vars
    <3>1. FuturesKept /\ SendersStay /\ wrote' = wrote
      BY <2>4 DEF vars, pyVars, mailVars, loopVars, netVars, FuturesKept,
                  SendersStay, Ended
    <3> QED BY <2>1, <3>1, CallsStay
  <2> QED BY <2>2, <2>3, <2>4
<1>3. Types /\ FutureInv /\ CallsInv => ClientInv
  BY DEF ClientInv
<1> QED BY <1>1, <1>2, <1>3, FutureInvariance, PTL DEF Spec

\* What the state of the abstract session is made of.
Seen == UNCHANGED <<resps, handled, mail>>

\* A step that keeps all of it is a stutter of the abstract session.
LEMMA SessionStutters ==
  ASSUME Seen, UNCHANGED <<queued, codeq, wrote>>, Ended' <=> Ended
  PROVE  UNCHANGED Calls!callVars
<1>1. Ended' = Ended
  BY DEF Ended
<1> QED BY <1>1 DEF Seen, Calls!callVars, ElementsOf

\* An eval is called under an id of its own.
LEMMA EvalCalls ==
  ASSUME ClientInv, NEW e \in Ids, Eval(e)
  PROVE  Calls!Call(e)
<1>1. /\ queued \in Seq(Ids) /\ codeq \in Seq(Ids) /\ ~Ended
      /\ codeq' = Append(codeq, e) /\ e \notin issued
      /\ UNCHANGED <<queued, wrote, tpc>> /\ Seen
  BY DEF Eval, ClientInv, Types, loopVars, netVars, Seen
<1>2. queued \o Append(codeq, e) = Append(queued \o codeq, e)
  <2>1. <<e>> \in Seq(Ids) /\ queued \o codeq \in Seq(Ids)
    BY <1>1, ConcatProperties
  <2> QED BY <1>1, <2>1, AppendIsConcat, ConcatAssociative
<1>3. e \notin ElementsOf(queued \o codeq)
  BY <1>1, ConcatElements DEF ClientInv, FutureInv, Futures, Placed
<1>4. Ended' = Ended
  BY <1>1 DEF Ended
<1> QED BY <1>1, <1>2, <1>3, <1>4 DEF Calls!Call, Calls!IdsIn, ElementsOf, Seen

\* A wait takes a result that is there, and nothing else.
LEMMA WaitCalls ==
  ASSUME ClientInv, NEW w \in Ids, WaitReturns(w)
  PROVE  Calls!Take(w) \/ UNCHANGED Calls!callVars
<1>1. UNCHANGED <<queued, codeq, wrote, resps, handled, tpc>>
  BY DEF WaitReturns, loopVars, netVars
<1>2. Ended' = Ended
  BY <1>1 DEF Ended
<1>3. CASE mail[w] = <<>>
  <2>1. mail' = mail
    BY <1>3 DEF WaitReturns
  <2> QED BY <1>1, <1>2, <2>1, SessionStutters DEF Seen
<1>4. CASE mail[w] # <<>>
  <2> DEFINE held == {id \in Ids : mail[id] = <<id>>}
  <2>1. mail[w] = <<w>> /\ mail'[w] = <<>> /\ <<w>> # <<>>
    BY <1>4, WaitTakes
  <2>2. w \in held /\ held' = held \ {w}
    BY <2>1, WaitTakes
  <2> QED BY <1>1, <1>2, <2>2 DEF Calls!Take, ElementsOf
<1> QED BY <1>3, <1>4

\* The server answers a request that has been written, for the first time.
LEMMA ServerAnswers ==
  ASSUME ClientInv, NEW e \in Ids, ServerResponds(e)
  PROVE  Calls!Answer(e)
<1>1. /\ resps \in Seq(Ids) /\ resps' = Append(resps, e) /\ e \notin ElementsOf(resps)
      /\ UNCHANGED <<queued, codeq, wrote, mail, tpc>>
      /\ queued \in Seq(Ids) /\ codeq \in Seq(Ids) /\ wrote \in Nat
  BY DEF ServerResponds, ClientInv, Types, loopVars, mailVars
<1>2. ElementsOf(resps') = ElementsOf(resps) \cup {e}
  BY <1>1, AppendElements
<1>3. \E i \in 1 .. wrote \div FrameLen : (queued \o codeq)[i] = e
  <2>1. PICK i \in 1 .. Len(queued) : queued[i] = e /\ wrote >= FrameLen * i
    BY DEF ServerResponds, Received
  <2>2. Len(queued) \in Nat /\ Len(codeq) \in Nat /\ i <= Len(queued)
    BY <1>1, <2>1
  <2>3. (queued \o codeq)[i] = e
    BY <1>1, <2>1, <2>2, ConcatProperties
  <2>4. i \in 1 .. wrote \div FrameLen
    BY <1>1, <2>1 DEF FrameLen
  <2> QED BY <2>3, <2>4
<1>4. Ended' = Ended
  BY <1>1 DEF Ended
<1>5. Delivered' = Delivered
  BY DeliveredKept
<1> QED BY <1>1, <1>2, <1>3, <1>4, <1>5 DEF Calls!Answer, ElementsOf, Delivered

\* What a write completes was called before, in that order.
LEMMA WriteSends ==
  ASSUME ClientInv, Next, wrote' # wrote
  PROVE  Calls!Send \/ UNCHANGED Calls!callVars
<1>1. /\ UNCHANGED <<queued, codeq>> /\ Seen /\ ~Ended /\ ~Ended'
      /\ wrote' \in wrote + 1 .. FrameLen * Len(queued)
  BY WriteSteps DEF FuturesKept, Seen
<1>2. /\ queued \in Seq(Ids) /\ codeq \in Seq(Ids) /\ wrote \in Nat
      /\ Len(queued) \in Nat /\ Len(codeq) \in Nat
      /\ Len(queued \o codeq) = Len(queued) + Len(codeq)
  BY ConcatProperties DEF ClientInv, Types
<1>3. /\ wrote' \div FrameLen \in Nat /\ wrote \div FrameLen \in Nat
      /\ wrote \div FrameLen <= wrote' \div FrameLen
      /\ wrote' \div FrameLen <= Len(queued)
  <2>1. /\ wrote' \in Nat /\ wrote <= wrote' /\ wrote' <= 2 * Len(queued)
        /\ wrote \in Nat /\ Len(queued) \in Nat
    BY <1>1, <1>2 DEF FrameLen
  <2>2. \A a, b, c \in Nat : a <= b /\ b <= 2 * c =>
          /\ a \div 2 \in Nat /\ b \div 2 \in Nat
          /\ a \div 2 <= b \div 2 /\ b \div 2 <= c
    OBVIOUS
  <2> QED BY <2>1, <2>2 DEF FrameLen
<1>4. Ended' = Ended
  BY <1>1 DEF Ended
<1>5. CASE wrote' \div FrameLen = wrote \div FrameLen
  BY <1>1, <1>4, <1>5 DEF Calls!callVars, Seen, ElementsOf
<1>6. CASE wrote' \div FrameLen # wrote \div FrameLen
  <2>1. wrote' \div FrameLen \in (wrote \div FrameLen) + 1 .. Len(queued \o codeq)
    BY <1>2, <1>3, <1>6
  <2> QED BY <1>1, <1>4, <2>1 DEF Calls!Send, Seen, ElementsOf
<1> QED BY <1>5, <1>6

\* The beginning of a concatenation.
LEMMA ConcatPrefix ==
  ASSUME NEW s \in Seq(Ids), NEW t \in Seq(Ids)
  PROVE  /\ Len(s) \in 0 .. Len(s \o t)
         /\ SubSeq(s \o t, 1, Len(s)) = s
<1>1. /\ s \o t \in Seq(Ids) /\ Len(s \o t) = Len(s) + Len(t)
      /\ Len(s) \in Nat /\ Len(t) \in Nat
      /\ \A i \in 1 .. Len(s) + Len(t) :
           (s \o t)[i] = IF i <= Len(s) THEN s[i] ELSE t[i - Len(s)]
  BY ConcatProperties
<1>2. \A i \in 1 .. Len(s) : (s \o t)[i] = s[i] /\ s[i] \in Ids
  BY <1>1
<1> DEFINE p == SubSeq(s \o t, 1, Len(s))
<1>3. p \in Seq(Ids) /\ Len(p) = Len(s) /\ \A i \in 1 .. Len(s) : p[i] = (s \o t)[i]
  <2>1. 1 \in Int /\ Len(s) \in Int /\ \A i \in 1 .. Len(s) : (s \o t)[i] \in Ids
    BY <1>1, <1>2
  <2>2. /\ p \in Seq(Ids)
        /\ Len(p) = IF 1 <= Len(s) THEN Len(s) - 1 + 1 ELSE 0
        /\ \A i \in 1 .. Len(s) - 1 + 1 : p[i] = (s \o t)[1 + i - 1]
    BY <2>1, SubSeqProperties
  <2>3. \A i \in 1 .. Len(s) : 1 + i - 1 = i
    BY <1>1
  <2> QED BY <1>1, <2>2, <2>3
<1>4. p = s
  <2> HIDE DEF p
  <2> QED BY <1>2, <1>3, SeqEqual
<1> QED BY <1>1, <1>4

\* The end of the thread forgets the code that is still in its channel.
LEMMA EndForgets ==
  ASSUME ClientInv, Seen, wrote' = wrote, SendersGo, queued' = queued
  PROVE  Calls!End
<1>1. /\ queued \in Seq(Ids) /\ codeq \in Seq(Ids) /\ wrote \in Nat
      /\ wrote <= FrameLen * Len(queued) /\ Len(queued) \in Nat
  BY DEF ClientInv, Types, CallsInv
<1>2. ~Ended /\ Ended' /\ Ended' = TRUE
  BY DEF SendersGo, Ended
<1>3. queued' \o codeq' = SubSeq(queued \o codeq, 1, Len(queued))
  <2>1. queued' \o codeq' = queued
    BY <1>1, ConcatEmptySeq DEF SendersGo
  <2> QED BY <1>1, <2>1, ConcatPrefix
<1>4. Len(queued) \in (wrote \div FrameLen) .. Len(queued \o codeq)
  <2>1. wrote \div FrameLen \in Nat /\ wrote \div FrameLen <= Len(queued)
    BY <1>1 DEF FrameLen
  <2> QED BY <1>1, <2>1, ConcatPrefix
<1> QED BY <1>2, <1>3, <1>4 DEF Calls!End, Seen, ElementsOf

\* The head of the loop delivers the responses it handles, each to a future
\* that had none, or finds the client gone and ends.
LEMMA HeadCalls ==
  ASSUME ClientInv, ThreadLoopHead
  PROVE  (\E S \in SUBSET Ids : Calls!Deliver(S)) \/ Calls!End
<1>1. /\ queued \in Seq(Ids) /\ codeq \in Seq(Ids) /\ queued \o codeq \in Seq(Ids)
      /\ resps \in Seq(Ids) /\ mail \in [Ids -> Seq(Ids)]
      /\ queued' = queued \o codeq /\ UNCHANGED <<wrote, resps>> /\ ~Ended
      /\ codeq' = <<>>
  BY ConcatProperties DEF ClientInv, Types, ThreadLoopHead, Return, netVars, Ended
<1>2. queued' \o codeq' = queued \o codeq
  BY <1>1, ConcatEmptySeq
<1>3. CASE dropped
  <2>1. UNCHANGED <<mail, handled>> /\ Ended' /\ Ended' = TRUE
    BY <1>3 DEF ThreadLoopHead, Return, Ended
  <2>2. /\ queued' \o codeq' = SubSeq(queued \o codeq, 1, Len(queued \o codeq))
        /\ Len(queued \o codeq) \in (wrote \div FrameLen) .. Len(queued \o codeq)
    <3>1. /\ wrote \in Nat /\ wrote <= FrameLen * Len(queued) /\ Len(queued) \in Nat
          /\ Len(codeq) \in Nat /\ Len(queued \o codeq) = Len(queued) + Len(codeq)
      BY <1>1, ConcatProperties DEF ClientInv, Types, CallsInv
    <3>2. /\ wrote \div FrameLen \in Nat /\ wrote \div FrameLen <= Len(queued \o codeq)
          /\ Len(queued \o codeq) \in Nat
      BY <3>1 DEF FrameLen
    <3> QED BY <1>1, <1>2, <3>2, SubSeqFull
  <2> QED BY <1>1, <2>1, <2>2 DEF Calls!End, ElementsOf
<1>4. CASE ~dropped
  <2> DEFINE S == {resps[i] : i \in Unhandled}
             held == {id \in Ids : mail[id] = <<id>>}
  <2>1. /\ Delivered' = Delivered \cup S
        /\ \A i \in Unhandled : i \in 1 .. Len(resps) /\ resps[i] \notin Delivered
    BY <1>4, HeadDelivers
  <2>2. S \subseteq ElementsOf(resps) \ Delivered /\ S \subseteq Ids
    BY <1>1, <2>1 DEF ElementsOf
  <2>3. ASSUME NEW id \in Ids
        PROVE  mail'[id] = <<id>> <=> mail[id] = <<id>> \/ id \in S
    <3>1. mail'[id] = IF SettledBy(id) # {} THEN Append(mail[id], id) ELSE mail[id]
      BY <1>4, HeadMail
    <3>2. CASE id \in S
      <4>1. id \in InMap
        <5>1. id \in ElementsOf(queued) /\ id \notin Delivered
          BY <2>2, <3>2 DEF ClientInv, FutureInv, Answers
        <5>2. sender[id] \in {"none", "queue", "map", "gone"}
          BY DEF ClientInv, Types
        <5>3. sender[id] = "map"
          BY <1>1, <5>1, <5>2 DEF ClientInv, FutureInv, Futures, Placed, CallsInv
        <5> QED BY <5>3 DEF InMap
      <4>2. SettledBy(id) # {}
        BY <3>2, <4>1 DEF SettledBy
      <4>3. mail[id] = <<>>
        BY <2>2, <3>2 DEF ClientInv, CallsInv
      <4>4. Append(<<>>, id) = <<id>>
        OBVIOUS
      <4> QED BY <3>1, <3>2, <4>2, <4>3, <4>4
    <3>3. CASE id \notin S
      <4>1. SettledBy(id) = {}
        BY <3>3, OwnIdSettles
      <4> QED BY <3>1, <3>3, <4>1
    <3> QED BY <3>2, <3>3
  <2>4. held' = held \cup S
    BY <2>2, <2>3
  <2>5. ~Ended' /\ Ended' = Ended
    BY <1>1, <1>4 DEF ThreadLoopHead, Ended
  <2>6. /\ ElementsOf(resps') = ElementsOf(resps) /\ (wrote \div FrameLen)' = wrote \div FrameLen
        /\ S \in SUBSET Ids
    BY <1>1, <2>2 DEF ElementsOf
  <2> HIDE DEF S
  <2> QED BY <1>1, <1>2, <2>1, <2>2, <2>4, <2>5, <2>6 DEF Calls!Deliver, ElementsOf, Delivered
<1> QED BY <1>3, <1>4

\* Every step is one of the abstract session, or none.
LEMMA StepCalls ==
  ASSUME ClientInv, [Next]_vars
  PROVE  [Calls!Next]_Calls!callVars
<1>1. CASE Next /\ wrote' # wrote
  BY <1>1, WriteSends DEF Calls!Next
<1>2. CASE Next /\ wrote' = wrote
  <2>1. ASSUME NEW e \in Ids, Eval(e)
        PROVE  Calls!Next
    BY <2>1, EvalCalls DEF Calls!Next
  <2>2. ASSUME NEW w \in Ids, WaitReturns(w)
        PROVE  Calls!Next \/ UNCHANGED Calls!callVars
    BY <2>2, WaitCalls DEF Calls!Next
  <2>3. ASSUME NEW w \in Ids, WaitTimesOut(w)
        PROVE  UNCHANGED Calls!callVars
    <3>1. Seen /\ UNCHANGED <<queued, codeq, wrote, tpc>>
      BY <2>3 DEF WaitTimesOut, Seen, mailVars, loopVars, netVars
    <3> QED BY <3>1, SessionStutters DEF Ended
  <2>4. ASSUME NEW e \in Ids, ServerResponds(e)
        PROVE  Calls!Next
    BY <2>4, ServerAnswers DEF Calls!Next
  <2>5. CASE ThreadLoopHead
    BY <2>5, HeadCalls DEF Calls!Next
  <2>6. CASE FuturesKept /\ SendersStay
    BY <1>2, <2>6, SessionStutters DEF FuturesKept, SendersStay, Seen
  <2>7. CASE FuturesKept /\ SendersGo
    BY <1>2, <2>7, EndForgets DEF FuturesKept, Seen, Calls!Next
  <2> QED BY <1>2, <2>1, <2>2, <2>3, <2>4, <2>5, <2>6, <2>7, OtherFutures
<1>3. CASE UNCHANGED vars
  <2>1. Seen /\ UNCHANGED <<queued, codeq, wrote, tpc>>
    BY <1>3 DEF vars, Seen, mailVars, loopVars, netVars
  <2> QED BY <2>1, SessionStutters DEF Ended
<1> QED BY <1>1, <1>2, <1>3

\* Handle, channels, futures and background thread implement the abstract
\* session: code goes out once, in the order of the calls, and an answer goes
\* to its own future once and is taken from it once, however the streams cut
\* and merge the messages (client/client/mod.rs:194-262, future.rs).
THEOREM CallsImplemented == Spec => ImplementsSessionCalls
<1>1. Init => Calls!Init
  <2> SUFFICES ASSUME Init PROVE Calls!Init
    OBVIOUS
  <2>1. /\ queued = <<>> /\ codeq = <<>> /\ resps = <<>> /\ wrote = 0 /\ handled = 0
        /\ \A id \in Ids : mail[id] = <<>>
        /\ tpc = "connect"
    BY DEF Init
  <2>2. /\ queued \o codeq = <<>> /\ ElementsOf(resps) = {} /\ Delivered = {}
        /\ wrote \div FrameLen = 0 /\ Ended = FALSE
        /\ {id \in Ids : mail[id] = <<id>>} = {}
    BY <2>1 DEF ElementsOf, Delivered, FrameLen, Ended
  <2> QED BY <2>2 DEF Calls!Init, Delivered
<1>2. ClientInv /\ [Next]_vars => [Calls!Next]_Calls!callVars
  BY StepCalls
<1> QED BY <1>1, <1>2, ClientInvariance, PTL DEF Spec, ImplementsSessionCalls, Calls!Spec
=============================================================================
