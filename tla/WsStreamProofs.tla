--------------------------- MODULE WsStreamProofs ---------------------------
(***************************************************************************)
(* Proofs about WsStream for every byte alphabet, chunk size and read      *)
(* buffer length.                                                          *)
(***************************************************************************)
EXTENDS WsStream, SequenceTheorems, TLAPS

USE BytesAssumption, MaxChunkAssumption, ReadBufAssumption, MaxMsgsAssumption,
    MaxWritesAssumption

\* TypeOK in two halves: the Boolean flags, which Zenon handles, and the
\* states, buffers and counters, which need SMT's sequences and arithmetic.
FlagTypes ==
    /\ txPending \in BOOLEAN
    /\ closed \in BOOLEAN
    /\ error \in BOOLEAN
    /\ readWaker \in BOOLEAN
    /\ writeWaker \in BOOLEAN
    /\ overLimit \in BOOLEAN

DataTypes ==
    /\ readyState \in {"connecting", "open", "closing", "closed"}
    /\ connectPc \in {"waiting", "connected"}
    /\ rx \in Seq(Bytes)
    /\ readerPc \in {"polling", "parked", "done"}
    /\ writerPc \in {"polling", "parked", "done"}
    /\ delivered \in Seq(Bytes)
    /\ consumed \in Seq(Bytes)
    /\ readResult \in {"none", "data", "eof", "error"}
    /\ writes \in 0 .. MaxWrites

\* The strengthening is the property itself with the types: the two
\* histories and the buffer are byte sequences.
Inv == FlagTypes /\ DataTypes /\ StreamPreservesBytes

\* The two halves are the type invariant.
LEMMA TypeSplit == TypeOK <=> FlagTypes /\ DataTypes
BY Zenon DEF TypeOK, FlagTypes, DataTypes

\* Every chunk a message event carries is a byte sequence.
LEMMA ChunkIsSeq == \A chunk \in Chunks : chunk \in Seq(Bytes)
BY SeqDef DEF Chunks

\* Splitting a sequence after its n-th element and joining the halves gives
\* it back: what a partial read takes from the front and what it leaves.
LEMMA SplitJoin ==
    ASSUME NEW S, NEW s \in Seq(S), NEW n \in 0 .. Len(s)
    PROVE  SubSeq(s, 1, n) \o SubSeq(s, n + 1, Len(s)) = s
<1>1. /\ Len(s) \in Nat
      /\ 1 \in 1 .. Len(s) + 1
      /\ n \in 1 - 1 .. Len(s)
      /\ Len(s) \in n .. Len(s)
  BY LenProperties
<1>2. SubSeq(s, 1, n) \o SubSeq(s, n + 1, Len(s)) = SubSeq(s, 1, Len(s))
  BY <1>1, ConcatAdjacentSubSeq
<1>3. QED
  BY <1>2, SubSeqFull

\* Before the socket opens, nothing was delivered, read or buffered.
LEMMA InitInv == Init => Inv
<1> SUFFICES ASSUME Init PROVE Inv
  OBVIOUS
<1>1. FlagTypes
  BY Zenon DEF Init, FlagTypes
<1>2. <<>> \in Seq(Bytes) /\ <<>> \o <<>> = <<>>
  BY EmptySeq, ConcatEmptySeq
<1>3. DataTypes /\ StreamPreservesBytes
  BY <1>2 DEF Init, DataTypes, StreamPreservesBytes
<1>4. QED
  BY <1>1, <1>3 DEF Inv

\* onmessage appends the same chunk to the buffer and to the history.
LEMMA OnMessageInv == Inv /\ OnMessage => Inv'
<1> SUFFICES ASSUME Inv, OnMessage PROVE Inv'
  OBVIOUS
<1>1. PICK chunk \in Chunks : rx' = rx \o chunk /\ delivered' = delivered \o chunk
  BY DEF OnMessage
<1>2. chunk \in Seq(Bytes)
  BY ChunkIsSeq
<1>3. rx' \in Seq(Bytes) /\ delivered' \in Seq(Bytes)
  BY <1>1, <1>2, ConcatProperties DEF Inv, DataTypes
<1>4. delivered' = consumed' \o rx'
  <2>1. delivered' = (consumed \o rx) \o chunk
    BY <1>1 DEF Inv, StreamPreservesBytes
  <2>2. (consumed \o rx) \o chunk = consumed \o (rx \o chunk)
    BY <1>2, ConcatAssociative DEF Inv, DataTypes
  <2>3. QED
    BY <1>1, <2>1, <2>2 DEF OnMessage
<1>5. FlagTypes'
  BY Zenon DEF OnMessage, WakeReader, Inv, FlagTypes
<1>6. DataTypes'
  BY <1>3 DEF OnMessage, WakeReader, Inv, DataTypes
<1>7. QED
  BY <1>4, <1>5, <1>6 DEF Inv, StreamPreservesBytes

\* poll_read moves the first n buffered bytes to the consumed history.
LEMMA PollReadInv == Inv /\ PollRead => Inv'
<1> SUFFICES ASSUME Inv, PollRead PROVE Inv'
  OBVIOUS
<1>1. FlagTypes'
  BY Zenon DEF PollRead, Inv, FlagTypes
<1>2. CASE error \/ rx = <<>>
  <2>1. UNCHANGED <<rx, consumed, delivered>>
    BY <1>2 DEF PollRead
  <2>2. QED
    BY <1>1, <2>1 DEF PollRead, Inv, DataTypes, StreamPreservesBytes
<1>3. CASE ~error /\ rx # <<>>
  <2> DEFINE n == IF ReadBuf < Len(rx) THEN ReadBuf ELSE Len(rx)
  <2>1. /\ consumed' = consumed \o SubSeq(rx, 1, n)
        /\ rx' = SubSeq(rx, n + 1, Len(rx))
        /\ readResult' = "data"
        /\ UNCHANGED <<readerPc, delivered>>
    BY <1>3 DEF PollRead
  <2>2. n \in 0 .. Len(rx)
    BY LenProperties DEF Inv, DataTypes
  <2>3. SubSeq(rx, 1, n) \in Seq(Bytes) /\ SubSeq(rx, n + 1, Len(rx)) \in Seq(Bytes)
    BY <2>2, LenProperties, SubSeqProperties DEF Inv, DataTypes
  <2>4. consumed' \in Seq(Bytes)
    BY <2>1, <2>3, ConcatProperties DEF Inv, DataTypes
  <2>5. consumed' \o rx' = consumed \o rx
    <3> DEFINE front == SubSeq(rx, 1, n)
               back == SubSeq(rx, n + 1, Len(rx))
    <3>1. consumed' \o rx' = (consumed \o front) \o back
      BY <2>1
    <3>2. (consumed \o front) \o back = consumed \o (front \o back)
      <4>1. consumed \in Seq(Bytes) /\ front \in Seq(Bytes) /\ back \in Seq(Bytes)
        BY <2>3 DEF Inv, DataTypes
      <4>2. \A x, y, z \in Seq(Bytes) : (x \o y) \o z = x \o (y \o z)
        BY ConcatAssociative
      <4>3. QED
        BY <4>1, <4>2
    <3>3. front \o back = rx
      BY <2>2, SplitJoin DEF Inv, DataTypes
    <3>4. QED
      BY <3>1, <3>2, <3>3
  <2>6. DataTypes'
    BY <2>1, <2>3, <2>4 DEF PollRead, Inv, DataTypes
  <2>7. QED
    BY <1>1, <2>1, <2>5, <2>6 DEF Inv, StreamPreservesBytes
<1>4. QED
  BY <1>2, <1>3

\* Every other step keeps the flags Boolean, keeps the states, buffers and
\* counters in range, and leaves the buffer and both histories alone.
LEMMA StepInv == Inv /\ [Next]_vars => Inv'
<1> SUFFICES ASSUME Inv, [Next]_vars PROVE Inv'
  OBVIOUS
<1>1. CASE OnOpen
  <2>1. FlagTypes'
    BY <1>1, Zenon DEF OnOpen, taskVars, Inv, FlagTypes
  <2>2. QED
    BY <1>1, <2>1 DEF OnOpen, taskVars, Inv, DataTypes, StreamPreservesBytes
<1>2. CASE OnMessage
  BY <1>2, OnMessageInv
<1>3. CASE OnError
  <2>1. FlagTypes'
    BY <1>3, Zenon DEF OnError, WakeReader, Inv, FlagTypes
  <2>2. QED
    BY <1>3, <2>1 DEF OnError, WakeReader, Inv, DataTypes, StreamPreservesBytes
<1>4. CASE OnClose
  <2>1. FlagTypes'
    BY <1>4, Zenon DEF OnClose, WakeReader, Inv, FlagTypes
  <2>2. QED
    BY <1>4, <2>1 DEF OnClose, WakeReader, Inv, DataTypes, StreamPreservesBytes
<1>5. CASE BufferedChange
  <2>1. FlagTypes'
    BY <1>5, Zenon DEF BufferedChange, taskVars, Inv, FlagTypes
  <2>2. QED
    BY <1>5, <2>1 DEF BufferedChange, taskVars, Inv, DataTypes, StreamPreservesBytes
<1>6. CASE ConnectResumes
  <2>1. FlagTypes'
    BY <1>6, Zenon DEF ConnectResumes, taskVars, Inv, FlagTypes
  <2>2. QED
    BY <1>6, <2>1 DEF ConnectResumes, taskVars, Inv, DataTypes, StreamPreservesBytes
<1>7. CASE PollRead
  BY <1>7, PollReadInv
<1>8. CASE PollWrite
  <2>1. FlagTypes'
    BY <1>8, Zenon DEF PollWrite, Inv, FlagTypes
  <2>2. QED
    BY <1>8, <2>1 DEF PollWrite, Inv, DataTypes, StreamPreservesBytes
<1>9. CASE PollClose
  <2>1. FlagTypes'
    BY <1>9, Zenon DEF PollClose, Inv, FlagTypes
  <2>2. QED
    BY <1>9, <2>1 DEF PollClose, Inv, DataTypes, StreamPreservesBytes
<1>10. CASE UNCHANGED vars
  BY <1>10 DEF vars, Inv, FlagTypes, DataTypes, StreamPreservesBytes
<1>11. QED
  BY <1>1, <1>2, <1>3, <1>4, <1>5, <1>6, <1>7, <1>8, <1>9, <1>10 DEF Next

\* For any chunk sizes, read buffer length and interleaving of message
\* events with partial reads: the bytes poll_read has handed out, followed
\* by what read_buffer still holds, are exactly the bytes onmessage got.
THEOREM BytesPreserved == Spec => []StreamPreservesBytes
<1>1. Inv => StreamPreservesBytes
  BY DEF Inv
<1>2. QED
  BY <1>1, InitInv, StepInv, PTL DEF Spec

\* The adapter's state stays well-typed for every instance: the flags,
\* the buffers, the task states and the send counter.
THEOREM StreamTypeCorrect == Spec => []TypeOK
<1>1. Inv => TypeOK
  BY TypeSplit DEF Inv
<1>2. QED
  BY <1>1, InitInv, StepInv, PTL DEF Spec
-----------------------------------------------------------------------------
(***************************************************************************)
(* The end of the stream.  Every path that sets the closed latch leaves    *)
(* the socket closing or closed, and the browser never reopens it, so no   *)
(* message event follows the latch; the reader ends exactly when          *)
(* poll_read returns Ok(0) or an error, and only once the latch is set.    *)
(***************************************************************************)
EndFacts ==
    /\ error => closed
    /\ closed => readyState \in {"closing", "closed"}
    /\ (readResult \in {"eof", "error"}) <=> (readerPc = "done")
    /\ readResult \in {"eof", "error"} => closed

EndInv == Inv /\ EndFacts

\* Taking the first Len(s) + n bytes of s \o t takes s and the first n of t.
LEMMA TakeFront ==
    ASSUME NEW S, NEW s \in Seq(S), NEW t \in Seq(S), NEW n \in 0 .. Len(t)
    PROVE  SubSeq(s \o t, 1, Len(s) + n) = s \o SubSeq(t, 1, n)
<1>1. /\ s \o t \in Seq(S)
      /\ Len(s \o t) = Len(s) + Len(t)
      /\ \A i \in 1 .. Len(s) + Len(t) :
           (s \o t)[i] = IF i <= Len(s) THEN s[i] ELSE t[i - Len(s)]
  BY ConcatProperties
<1>2. /\ SubSeq(t, 1, n) \in Seq(S)
      /\ Len(SubSeq(t, 1, n)) = n
      /\ \A i \in 1 .. n : SubSeq(t, 1, n)[i] = t[i]
  BY SubSeqProperties, LenProperties
<1>3. /\ SubSeq(s \o t, 1, Len(s) + n) \in Seq(S)
      /\ Len(SubSeq(s \o t, 1, Len(s) + n)) = Len(s) + n
      /\ \A i \in 1 .. Len(s) + n : SubSeq(s \o t, 1, Len(s) + n)[i] = (s \o t)[i]
  <2>1. \A i \in 1 .. Len(s) + n : (s \o t)[i] \in S
    BY <1>1, ElementOfSeq, LenProperties
  <2>2. QED
    BY <2>1, SubSeqProperties, LenProperties
<1>4. /\ s \o SubSeq(t, 1, n) \in Seq(S)
      /\ Len(s \o SubSeq(t, 1, n)) = Len(s) + n
      /\ \A i \in 1 .. Len(s) + n :
           (s \o SubSeq(t, 1, n))[i] = IF i <= Len(s) THEN s[i] ELSE SubSeq(t, 1, n)[i - Len(s)]
  BY <1>2, ConcatProperties
<1>5. \A i \in 1 .. Len(s) + n :
        SubSeq(s \o t, 1, Len(s) + n)[i] = (s \o SubSeq(t, 1, n))[i]
  BY <1>1, <1>2, <1>3, <1>4, LenProperties
<1>6. QED
  BY <1>3, <1>4, <1>5, SeqEqual

\* The socket starts connecting, with no latch, no error and no result.
LEMMA InitEnd == Init => EndInv
<1> SUFFICES ASSUME Init PROVE EndFacts
  BY InitInv DEF EndInv
<1>1. QED
  BY DEF Init, EndFacts

\* WakeReader moves a parked reader back to polling: the reader is done
\* after it exactly when it was done before.
LEMMA WakeKeepsDone ==
    ASSUME TypeOK, WakeReader
    PROVE  (readerPc' = "done") <=> (readerPc = "done")
BY DEF WakeReader, TypeOK

\* Each action keeps the latch facts: onerror and onclose set the latch
\* with the socket closing or closed, poll_close sets it only after
\* ws.close(), onopen fires only on a socket still connecting (so before
\* any latch), and poll_read ends the reader only on an error or on the
\* latch.
LEMMA StepEnd == EndInv /\ [Next]_vars => EndFacts'
<1> SUFFICES ASSUME EndInv, [Next]_vars PROVE EndFacts'
  OBVIOUS
<1>0. TypeOK
  BY TypeSplit DEF EndInv, Inv
<1>1. CASE OnOpen
  <2>1. ~closed
    BY <1>1 DEF OnOpen, EndInv, EndFacts
  <2>2. QED
    BY <1>1, <2>1, <1>0 DEF OnOpen, taskVars, EndInv, EndFacts, TypeOK
<1>2. CASE OnMessage
  <2>1. (readerPc' = "done") <=> (readerPc = "done")
    BY <1>0, <1>2, WakeKeepsDone DEF OnMessage
  <2>2. QED
    BY <1>2, <2>1 DEF OnMessage, EndInv, EndFacts
<1>3. CASE OnError
  <2>1. (readerPc' = "done") <=> (readerPc = "done")
    BY <1>0, <1>3, WakeKeepsDone DEF OnError
  <2>2. QED
    BY <1>3, <2>1 DEF OnError, EndInv, EndFacts
<1>4. CASE OnClose
  <2>1. (readerPc' = "done") <=> (readerPc = "done")
    BY <1>0, <1>4, WakeKeepsDone DEF OnClose
  <2>2. QED
    BY <1>4, <2>1 DEF OnClose, EndInv, EndFacts
<1>5. CASE BufferedChange
  BY <1>5 DEF BufferedChange, taskVars, EndInv, EndFacts
<1>6. CASE ConnectResumes
  BY <1>6 DEF ConnectResumes, taskVars, EndInv, EndFacts
<1>7. CASE PollRead
  <2>1. readResult \notin {"eof", "error"}
    BY <1>7, <1>0 DEF PollRead, EndInv, EndFacts, TypeOK
  <2>2. UNCHANGED <<closed, error, readyState>>
    BY <1>7 DEF PollRead
  <2>3. CASE error /\ readResult' = "error" /\ readerPc' = "done"
    BY <2>2, <2>3 DEF EndInv, EndFacts
  <2>4. CASE closed /\ readResult' = "eof" /\ readerPc' = "done"
    BY <2>2, <2>4 DEF EndInv, EndFacts
  <2>5. CASE readerPc' = "parked" /\ readResult' = readResult
    BY <2>1, <2>2, <2>5 DEF EndInv, EndFacts
  <2>6. CASE readResult' = "data" /\ readerPc' = readerPc
    BY <1>7, <2>2, <2>6 DEF PollRead, EndInv, EndFacts
  <2>7. QED
    BY <1>7, <2>3, <2>4, <2>5, <2>6 DEF PollRead
<1>8. CASE PollWrite
  BY <1>8 DEF PollWrite, EndInv, EndFacts
<1>9. CASE PollClose
  BY <1>9, <1>0 DEF PollClose, EndInv, EndFacts, TypeOK
<1>10. CASE UNCHANGED vars
  BY <1>10 DEF vars, EndInv, EndFacts
<1>11. QED
  BY <1>1, <1>2, <1>3, <1>4, <1>5, <1>6, <1>7, <1>8, <1>9, <1>10 DEF Next

\* The strengthened invariant is inductive.
LEMMA StepEndInv == EndInv /\ [Next]_vars => EndInv'
BY StepInv, StepEnd DEF EndInv

-----------------------------------------------------------------------------
(***************************************************************************)
(* The refinement of ByteStream: delivered is what arrived, consumed what  *)
(* was taken, and the reader's end is the stream's end.                   *)
(***************************************************************************)

\* Before the socket opens, nothing has arrived or been taken, and the
\* stream has not ended.
LEMMA InitStream == Init => Stream!Init
BY DEF Init, Stream!Init, ReaderEnded

\* A step of the adapter is a step of ByteStream or leaves its variables
\* alone: onmessage is Arrive, poll_read with bytes is Take of the bytes it
\* copies, Ok(0) is Finish, an error is Fail, and every other step, a
\* poll_read that parks included, is a stutter.
LEMMA StepStream == EndInv /\ [Next]_vars => [Stream!Next]_<<delivered, consumed, ReaderEnded>>
<1> SUFFICES ASSUME EndInv, [Next]_vars PROVE [Stream!Next]_<<delivered, consumed, ReaderEnded>>
  OBVIOUS
<1>0. /\ rx \in Seq(Bytes) /\ consumed \in Seq(Bytes)
      /\ delivered = consumed \o rx
  BY DEF EndInv, Inv, DataTypes, StreamPreservesBytes
<1>1. CASE OnMessage
  <2>1. PICK chunk \in Chunks : delivered' = delivered \o chunk
    BY <1>1 DEF OnMessage
  <2>2. ReaderEnded = "no"
    BY <1>1 DEF OnMessage, EndInv, EndFacts, ReaderEnded
  <2>3. UNCHANGED <<consumed, readResult>>
    BY <1>1 DEF OnMessage
  <2>4. Stream!Arrive(chunk)
    BY <2>1, <2>2, <2>3 DEF Stream!Arrive, ReaderEnded
  <2>5. QED
    BY <2>4 DEF Stream!Next
<1>2. CASE PollRead
  <2>0. /\ ReaderEnded = "no"
        /\ UNCHANGED delivered
    BY <1>2 DEF PollRead, EndInv, EndFacts, ReaderEnded
  <2>1. CASE error /\ readResult' = "error" /\ UNCHANGED consumed
    <3>1. Stream!Fail
      BY <2>0, <2>1 DEF Stream!Fail, ReaderEnded
    <3>2. QED
      BY <3>1 DEF Stream!Next
  <2>2. CASE rx = <<>> /\ readResult' = "eof" /\ UNCHANGED consumed
    <3>1. consumed = delivered
      BY <1>0, <2>2, ConcatEmptySeq
    <3>2. Stream!Finish
      BY <2>0, <2>2, <3>1 DEF Stream!Finish, ReaderEnded
    <3>3. QED
      BY <3>2 DEF Stream!Next
  <2>3. CASE UNCHANGED <<consumed, readResult>>
    BY <2>0, <2>3 DEF ReaderEnded
  <2>4. CASE /\ rx # <<>>
             /\ consumed' = consumed \o SubSeq(rx, 1, IF ReadBuf < Len(rx) THEN ReadBuf ELSE Len(rx))
             /\ readResult' = "data"
    <3> DEFINE n == IF ReadBuf < Len(rx) THEN ReadBuf ELSE Len(rx)
    <3>1. n \in 1 .. Len(rx) /\ Len(rx) \in Nat
      BY <1>0, <2>4, LenProperties, EmptySeq
    <3>2. consumed' = SubSeq(delivered, 1, Len(consumed) + n)
      BY <1>0, <2>4, <3>1, TakeFront
    <3>3. Len(delivered) = Len(consumed) + Len(rx)
      BY <1>0, ConcatProperties
    <3>4. n \in 1 .. Len(delivered) - Len(consumed)
      BY <3>1, <3>3, <1>0, LenProperties
    <3>5. ReaderEnded' = "no"
      BY <2>4 DEF ReaderEnded
    <3>6. Stream!Take
      BY <2>0, <3>2, <3>4, <3>5 DEF Stream!Take
    <3>7. QED
      BY <3>6 DEF Stream!Next
  <2>5. QED
    BY <1>2, <2>1, <2>2, <2>3, <2>4 DEF PollRead
<1>3. CASE OnOpen \/ OnError \/ OnClose \/ BufferedChange \/ ConnectResumes
           \/ PollWrite \/ PollClose \/ UNCHANGED vars
  <2>1. UNCHANGED <<delivered, consumed, readResult>>
    BY <1>3 DEF OnOpen, OnError, OnClose, BufferedChange, ConnectResumes,
       PollWrite, PollClose, taskVars, vars
  <2>2. QED
    BY <2>1 DEF ReaderEnded
<1>4. QED
  BY <1>1, <1>2, <1>3 DEF Next

\* For every byte alphabet, chunk size and read buffer, WebSocketStream is
\* an in-order byte stream to the task reading it: what it reads is the
\* next bytes delivered, end of stream comes only after the last of them,
\* and nothing arrives or is read once the stream has ended.
THEOREM ImplementsByteStream == Spec => StreamRefined
<1>1. Spec => []EndInv
  BY InitEnd, StepEndInv, PTL DEF Spec
<1>2. QED
  BY <1>1, InitStream, StepStream, PTL DEF Spec, StreamRefined, Stream!Spec, Stream!streamVars
=============================================================================
