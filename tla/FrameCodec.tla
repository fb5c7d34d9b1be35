----------------------------- MODULE FrameCodec -----------------------------
(***************************************************************************)
(* The length-prefixed framing of src/portal/wasm/src/crypto.rs:           *)
(* write_length_prefixed puts `data.len() as u32` in big-endian bytes       *)
(* before the data; read_length_prefixed reads the length, rejects one      *)
(* above MAX_RAW_PACKET_SIZE and reads exactly that many bytes.  One side   *)
(* writes frames onto a byte stream, the other reads them back.             *)
(*                                                                         *)
(* The widths are scaled down with their relations kept: a length field of *)
(* LenBytes digits in base ByteRange (4 bytes of 256 in the code) and a     *)
(* maximum MaxPacket below ByteRange^LenBytes (2^26 below 2^32).  How the   *)
(* stream is cut into poll_read chunks does not matter here: read_exact     *)
(* loops until it has the bytes, and WsStream.tla shows the adapter hands   *)
(* over the bytes in order.                                                 *)
(***************************************************************************)
EXTENDS Naturals, Sequences, SequencesExt

CONSTANTS
    ByteRange,  \* values of one byte (256)
    LenBytes,   \* bytes of the length prefix (4)
    MaxPacket,  \* MAX_RAW_PACKET_SIZE (2^26)
    MaxData,    \* bound: length of the data of one frame
    MaxFrames   \* bound: frames written

ASSUME ByteRangeAssumption == ByteRange \in Nat \ {0, 1}
ASSUME LenBytesAssumption == LenBytes \in Nat \ {0}
ASSUME MaxPacketAssumption == MaxPacket \in 1 .. ByteRange ^ LenBytes - 1
ASSUME BoundsAssumption == MaxData \in Nat /\ MaxFrames \in Nat

Byte == 0 .. ByteRange - 1

\* Every frame payload the writer may be handed, up to MaxData bytes.
Payloads == UNION {[1 .. k -> Byte] : k \in 0 .. MaxData}

\* The value of a big-endian byte string (u32::from_be_bytes).
FromBE(s) ==
    LET v[i \in 0 .. Len(s)] == IF i = 0 THEN 0 ELSE v[i - 1] * ByteRange + s[i]
    IN  v[Len(s)]

\* Mutant of ToBE for TypeOK: the digits are not masked to one byte.
ToBEUnmasked(n) == [i \in 1 .. LenBytes |-> n \div ByteRange ^ (LenBytes - i)]

\* u32::to_be_bytes.
ToBE(n) == [i \in 1 .. LenBytes |-> (n \div ByteRange ^ (LenBytes - i)) % ByteRange]

\* write_length_prefixed: `data.len() as u32` keeps the low LenBytes bytes
\* of the length; no size check.
Encode(data) == ToBE(Len(data) % (ByteRange ^ LenBytes)) \o data

\* Mutant of TooLarge for ReadsWhatWasWritten: the boundary is excluded.
TooLargeOffByOne(len) == len >= MaxPacket

\* The check of read_length_prefixed: `len > MAX_RAW_PACKET_SIZE`.
TooLarge(len) == len > MaxPacket

VARIABLES
    stream,     \* bytes written and not yet read
    sent,       \* history: payloads handed to write_length_prefixed
    received,   \* history: payloads read_length_prefixed returned
    readResult  \* "none", "ok" or "tooLarge" (the reader stops)

vars == <<stream, sent, received, readResult>>

TypeOK ==
    /\ stream \in Seq(Byte)
    /\ sent \in Seq(Payloads)
    /\ received \in Seq(Seq(Byte))
    /\ readResult \in {"none", "ok", "tooLarge"}

Init ==
    /\ stream = <<>>
    /\ sent = <<>>
    /\ received = <<>>
    /\ readResult = "none"

\* write_length_prefixed: write_all of the prefix, then of the data.
Write(data) ==
    /\ Len(sent) < MaxFrames
    /\ stream' = stream \o Encode(data)
    /\ sent' = Append(sent, data)
    /\ UNCHANGED <<received, readResult>>

\* read_length_prefixed, once the bytes it waits for are there: read_exact
\* of the prefix, the size check, read_exact of the data.  A rejected
\* length ends the connection (every caller propagates the error).
Read ==
    /\ readResult # "tooLarge"
    /\ Len(stream) >= LenBytes
    /\ LET len == FromBE(SubSeq(stream, 1, LenBytes)) IN
         IF TooLarge(len)
           THEN /\ readResult' = "tooLarge"
                /\ stream' = SubSeq(stream, LenBytes + 1, Len(stream))
                /\ UNCHANGED received
           ELSE /\ Len(stream) >= LenBytes + len
                /\ received' = Append(received, SubSeq(stream, LenBytes + 1, LenBytes + len))
                /\ stream' = SubSeq(stream, LenBytes + len + 1, Len(stream))
                /\ readResult' = "ok"
    /\ UNCHANGED sent

Next ==
    \/ \E data \in Payloads : Write(data)
    \/ Read

Spec == Init /\ [][Next]_vars

\* Spec 6 / 7: the reader gets back exactly the payloads that were
\* written, in order, and never rejects a frame the writer emitted.
ReadsWhatWasWritten ==
    /\ readResult # "tooLarge"
    /\ IsPrefix(received, sent)
=============================================================================
