------------------------------ MODULE WsStream ------------------------------
(***************************************************************************)
(* WebSocketStream of src/portal/wasm/src/ws_stream.rs: the adapter from   *)
(* the browser's callback WebSocket to an AsyncRead + AsyncWrite byte       *)
(* stream.                                                                 *)
(*                                                                         *)
(* Actors: the browser, which changes readyState and fires onopen,          *)
(* onmessage, onerror and onclose on the event loop; the task awaiting      *)
(* connect; one task polling poll_read and one polling poll_write.  All run *)
(* on the one browser thread, so every callback and every poll is atomic;  *)
(* a task parked on a waker is polled again only after the waker is woken. *)
(* Bytes are model values; the 64 KiB buffered-amount threshold is the      *)
(* boolean "overLimit", which the browser raises and lowers as it sends.    *)
(***************************************************************************)
EXTENDS Naturals, Sequences

CONSTANTS
    Bytes,      \* byte values carried by messages
    MaxChunk,   \* bound: bytes in one onmessage chunk
    ReadBuf,    \* length of the buffer poll_read fills
    MaxMsgs,    \* bound: messages the browser delivers
    MaxWrites   \* bound: poll_write calls that send

ASSUME BytesAssumption == Bytes # {}
ASSUME MaxChunkAssumption == MaxChunk \in Nat \ {0}
ASSUME ReadBufAssumption == ReadBuf \in Nat \ {0}
ASSUME MaxMsgsAssumption == MaxMsgs \in Nat
ASSUME MaxWritesAssumption == MaxWrites \in Nat

\* Non-empty chunks of at most MaxChunk bytes.
Chunks == UNION {[1 .. k -> Bytes] : k \in 1 .. MaxChunk}

VARIABLES
    readyState,   \* the browser WebSocket: "connecting", "open", "closing", "closed"
    connectPc,    \* the task in connect: "waiting" on rx.await, or "connected"
    txPending,    \* the oneshot sender is still in its slot (not taken by onopen)
    rx,           \* read_buffer: bytes delivered and not yet read
    closed,       \* the closed latch
    error,        \* the error slot is Some
    readWaker,    \* read_waker is Some
    writeWaker,   \* write_waker is Some
    readerPc,     \* "polling", "parked" or "done"
    writerPc,     \* "polling", "parked" or "done"
    overLimit,    \* buffered_amount() > 64 KiB
    delivered,    \* history: bytes of every onmessage, in order
    consumed,     \* history: bytes poll_read copied out, in order
    readResult,   \* last poll_read outcome
    writes        \* poll_write calls that sent

vars == <<readyState, connectPc, txPending, rx, closed, error, readWaker,
          writeWaker, readerPc, writerPc, overLimit, delivered, consumed,
          readResult, writes>>
taskVars == <<readerPc, writerPc, consumed, readResult, writes>>

TypeOK ==
    /\ readyState \in {"connecting", "open", "closing", "closed"}
    /\ connectPc \in {"waiting", "connected"}
    /\ txPending \in BOOLEAN
    /\ rx \in Seq(Bytes)
    /\ closed \in BOOLEAN
    /\ error \in BOOLEAN
    /\ readWaker \in BOOLEAN
    /\ writeWaker \in BOOLEAN
    /\ readerPc \in {"polling", "parked", "done"}
    /\ writerPc \in {"polling", "parked", "done"}
    /\ overLimit \in BOOLEAN
    /\ delivered \in Seq(Bytes)
    /\ consumed \in Seq(Bytes)
    /\ readResult \in {"none", "data", "eof", "error"}
    /\ writes \in 0 .. MaxWrites

\* connect has created the WebSocket and installed every handler; it now
\* awaits the oneshot that onopen completes.
Init ==
    /\ readyState = "connecting"
    /\ connectPc = "waiting"
    /\ txPending = TRUE
    /\ rx = <<>>
    /\ closed = FALSE
    /\ error = FALSE
    /\ readWaker = FALSE
    /\ writeWaker = FALSE
    /\ readerPc = "polling"
    /\ writerPc = "polling"
    /\ overLimit = FALSE
    /\ delivered = <<>>
    /\ consumed = <<>>
    /\ readResult = "none"
    /\ writes = 0

\* waker.take() and wake(): a parked reader becomes ready to be polled.
WakeReader ==
    /\ readWaker' = FALSE
    /\ readerPc' = IF readWaker /\ readerPc = "parked" THEN "polling" ELSE readerPc
-----------------------------------------------------------------------------
(***************************************************************************)
(* The browser and the handlers connect installed.                         *)
(***************************************************************************)

\* The socket opens; onopen takes the oneshot sender and sends on it.
OnOpen ==
    /\ readyState = "connecting"
    /\ readyState' = "open"
    /\ txPending' = FALSE
    /\ UNCHANGED <<connectPc, rx, closed, error, readWaker, writeWaker, overLimit,
                   delivered, taskVars>>

\* Mutant of OnMessage for TypeOK: the message is queued as one element
\* (push_back of the chunk) instead of extending the buffer by its bytes.
OnMessagePushChunk ==
    /\ readyState = "open"
    /\ Len(delivered) < MaxMsgs * MaxChunk
    /\ \E chunk \in Chunks :
         /\ rx' = Append(rx, chunk)
         /\ delivered' = delivered \o chunk
    /\ WakeReader
    /\ UNCHANGED <<readyState, connectPc, txPending, closed, error, writeWaker,
                   overLimit, writerPc, consumed, readResult, writes>>

\* Mutant of OnMessage for ReaderNotStranded: the pending read is not woken.
OnMessageNoWake ==
    /\ readyState = "open"
    /\ Len(delivered) < MaxMsgs * MaxChunk
    /\ \E chunk \in Chunks :
         /\ rx' = rx \o chunk
         /\ delivered' = delivered \o chunk
    /\ UNCHANGED <<readyState, connectPc, txPending, closed, error, readWaker,
                   writeWaker, overLimit, taskVars>>

\* A binary message arrives: its bytes are appended to read_buffer, then
\* the read waker, if any, is taken and woken.  The browser fires message
\* events only while the socket is open.
OnMessage ==
    /\ readyState = "open"
    /\ Len(delivered) < MaxMsgs * MaxChunk
    /\ \E chunk \in Chunks :
         /\ rx' = rx \o chunk
         /\ delivered' = delivered \o chunk
    /\ WakeReader
    /\ UNCHANGED <<readyState, connectPc, txPending, closed, error, writeWaker,
                   overLimit, writerPc, consumed, readResult, writes>>

\* The connection fails (before or after opening): onerror records the
\* error, sets the latch and wakes the reader.  The browser then closes.
OnError ==
    /\ readyState \in {"connecting", "open", "closing"}
    /\ readyState' = "closing"
    /\ error' = TRUE
    /\ closed' = TRUE
    /\ WakeReader
    /\ UNCHANGED <<connectPc, txPending, rx, writeWaker, overLimit, delivered,
                   writerPc, consumed, readResult, writes>>

\* The peer closes, or a close the client started completes: onclose sets
\* the latch and wakes the reader.
OnClose ==
    /\ readyState \in {"connecting", "open", "closing"}
    /\ readyState' = "closed"
    /\ closed' = TRUE
    /\ WakeReader
    /\ UNCHANGED <<connectPc, txPending, rx, error, writeWaker, overLimit, delivered,
                   writerPc, consumed, readResult, writes>>

\* The browser's send buffer passes or falls back under 64 KiB.  Nothing in
\* ws_stream.rs observes the fall (no bufferedamountlow handler).
BufferedChange ==
    /\ readyState = "open"
    /\ overLimit' = ~overLimit
    /\ UNCHANGED <<readyState, connectPc, txPending, rx, closed, error, readWaker,
                   writeWaker, delivered, taskVars>>

\* rx.await resumes once onopen has sent.  The sender lives in the onopen
\* closure, which connect forgets, so it is never dropped: without an open
\* event the await has no other way to complete.
ConnectResumes ==
    /\ connectPc = "waiting"
    /\ ~txPending
    /\ connectPc' = "connected"
    /\ UNCHANGED <<readyState, txPending, rx, closed, error, readWaker, writeWaker,
                   overLimit, delivered, taskVars>>
-----------------------------------------------------------------------------
(***************************************************************************)
(* The tasks that poll the stream once connect has returned it.            *)
(***************************************************************************)

\* Mutant of PollRead for StreamPreservesBytes: bytes taken from the back.
PollReadFromBack ==
    /\ connectPc = "connected"
    /\ readerPc = "polling"
    /\ ~error
    /\ rx # <<>>
    /\ LET n == IF ReadBuf < Len(rx) THEN ReadBuf ELSE Len(rx) IN
         /\ consumed' = consumed \o SubSeq(rx, Len(rx) - n + 1, Len(rx))
         /\ rx' = SubSeq(rx, 1, Len(rx) - n)
    /\ readResult' = "data"
    /\ UNCHANGED <<readyState, connectPc, txPending, closed, error, readWaker,
                   writeWaker, overLimit, delivered, readerPc, writerPc, writes>>

\* Mutant of PollRead for StreamRefined: the closed latch is taken as end of
\* stream without looking at read_buffer.
PollReadEofFirst ==
    /\ connectPc = "connected"
    /\ readerPc = "polling"
    /\ \/ /\ error
          /\ readResult' = "error"
          /\ readerPc' = "done"
          /\ UNCHANGED <<rx, consumed, readWaker>>
       \/ /\ ~error /\ closed
          /\ readResult' = "eof"
          /\ readerPc' = "done"
          /\ UNCHANGED <<rx, consumed, readWaker>>
       \/ /\ ~error /\ ~closed /\ rx = <<>>
          /\ readWaker' = TRUE
          /\ readerPc' = "parked"
          /\ UNCHANGED <<rx, consumed, readResult>>
       \/ /\ ~error /\ ~closed /\ rx # <<>>
          /\ LET n == IF ReadBuf < Len(rx) THEN ReadBuf ELSE Len(rx) IN
               /\ consumed' = consumed \o SubSeq(rx, 1, n)
               /\ rx' = SubSeq(rx, n + 1, Len(rx))
          /\ readResult' = "data"
          /\ UNCHANGED <<readWaker, readerPc>>
    /\ UNCHANGED <<readyState, connectPc, txPending, closed, error, writeWaker,
                   overLimit, delivered, writerPc, writes>>

\* poll_read, in code order: the error slot; the closed latch with an empty
\* buffer (end of stream); an empty buffer (install the waker, Pending);
\* otherwise pop up to buf.len() bytes from the front.  A task that gets
\* bytes polls again for more.
PollRead ==
    /\ connectPc = "connected"
    /\ readerPc = "polling"
    /\ \/ /\ error
          /\ readResult' = "error"
          /\ readerPc' = "done"
          /\ UNCHANGED <<rx, consumed, readWaker>>
       \/ /\ ~error /\ closed /\ rx = <<>>
          /\ readResult' = "eof"
          /\ readerPc' = "done"
          /\ UNCHANGED <<rx, consumed, readWaker>>
       \/ /\ ~error /\ ~closed /\ rx = <<>>
          /\ readWaker' = TRUE
          /\ readerPc' = "parked"
          /\ UNCHANGED <<rx, consumed, readResult>>
       \/ /\ ~error /\ rx # <<>>
          /\ LET n == IF ReadBuf < Len(rx) THEN ReadBuf ELSE Len(rx) IN
               /\ consumed' = consumed \o SubSeq(rx, 1, n)
               /\ rx' = SubSeq(rx, n + 1, Len(rx))
          /\ readResult' = "data"
          /\ UNCHANGED <<readWaker, readerPc>>
    /\ UNCHANGED <<readyState, connectPc, txPending, closed, error, writeWaker,
                   overLimit, delivered, writerPc, writes>>

\* poll_write, in code order: the error slot; the closed latch (BrokenPipe);
\* buffered_amount over 64 KiB (install write_waker, Pending); otherwise
\* send the bytes as one message.
PollWrite ==
    /\ connectPc = "connected"
    /\ writerPc = "polling"
    /\ writes < MaxWrites
    /\ \/ /\ error \/ closed
          /\ writerPc' = "done"
          /\ UNCHANGED <<writeWaker, writes>>
       \/ /\ ~error /\ ~closed /\ overLimit
          /\ writeWaker' = TRUE
          /\ writerPc' = "parked"
          /\ UNCHANGED writes
       \/ /\ ~error /\ ~closed /\ ~overLimit
          /\ writes' = writes + 1
          /\ UNCHANGED <<writeWaker, writerPc>>
    /\ UNCHANGED <<readyState, connectPc, txPending, rx, closed, error, readWaker,
                   overLimit, delivered, readerPc, consumed, readResult>>

\* poll_close: unless the latch is set, close the socket and set the latch.
\* The read waker is left in place; the reader learns of the close from
\* onclose once the browser finishes closing.
PollClose ==
    /\ connectPc = "connected"
    /\ writerPc = "polling"
    /\ IF ~closed
         THEN /\ readyState' = IF readyState = "closed" THEN "closed" ELSE "closing"
              /\ closed' = TRUE
         ELSE UNCHANGED <<readyState, closed>>
    /\ writerPc' = "done"
    /\ UNCHANGED <<connectPc, txPending, rx, error, readWaker, writeWaker, overLimit,
                   delivered, readerPc, consumed, readResult, writes>>
-----------------------------------------------------------------------------

Next ==
    \/ OnOpen
    \/ OnMessage
    \/ OnError
    \/ OnClose
    \/ BufferedChange
    \/ ConnectResumes
    \/ PollRead
    \/ PollWrite
    \/ PollClose

Spec == Init /\ [][Next]_vars

\* The executor polls every task that is ready (connect once onopen has
\* sent, a reader or writer that is not parked); the browser completes a
\* close it has started and drains its send buffer.
Fairness ==
    /\ WF_vars(ConnectResumes)
    /\ WF_vars(PollRead)
    /\ WF_vars(PollWrite)
    /\ WF_vars(readyState = "closing" /\ OnClose)
    /\ WF_vars(overLimit /\ BufferedChange)

FairSpec == Spec /\ Fairness
-----------------------------------------------------------------------------
(***************************************************************************)
(* Properties.                                                             *)
(***************************************************************************)

\* The stream hands the reader the bytes of the messages in arrival order,
\* none lost or repeated across partial reads: what poll_read has copied
\* out followed by what is still buffered is exactly what onmessage got.
StreamPreservesBytes == delivered = consumed \o rx

\* No lost wake-up: a reader parked in poll_read while bytes are buffered
\* or the socket is closed is polled again.
ReaderNotStranded ==
    (readerPc = "parked" /\ (rx # <<>> \/ closed)) ~> (readerPc # "parked")

\* connect maps a failed await to "WebSocket connection failed": once the
\* socket has failed or closed, connect stops waiting.
ConnectSettlesOnFailure ==
    (connectPc = "waiting" /\ closed) ~> (connectPc # "waiting")

\* Spec 4.5: a writer suspended by backpressure is woken when the
\* buffered amount drops, so it is polled again.
WriterResumes ==
    (writerPc = "parked") ~> (writerPc # "parked")


\* How the reader's view of the stream ends: Ok(0) is "eof", an Err from
\* check_error is "error", anything else is not yet an end.
ReaderEnded == IF readResult \in {"eof", "error"} THEN readResult ELSE "no"

Stream == INSTANCE ByteStream WITH arrived <- delivered, taken <- consumed,
                                   ended <- ReaderEnded

\* The adapter implements ByteStream for the task polling poll_read:
\* onmessage appends a chunk, a poll_read with bytes takes the next ones in
\* order, Ok(0) comes only once every delivered byte was read, an error
\* ends the stream, and nothing arrives or is read after either end.
StreamRefined == Stream!Spec
=============================================================================
