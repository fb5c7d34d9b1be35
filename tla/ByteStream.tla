----------------------------- MODULE ByteStream -----------------------------
(***************************************************************************)
(* What a byte-stream adapter promises the task reading from it: bytes     *)
(* arrive in chunks at the end of the stream; the reader takes one or more *)
(* of the next bytes at a time, in order; the stream ends either with end  *)
(* of stream, only once the reader has taken every byte that arrived, or   *)
(* with an error, which may leave bytes untaken.  Nothing arrives or is    *)
(* taken after the end.  An abstract specification, not a translation of   *)
(* code: WsStream.tla is shown to implement it.                            *)
(***************************************************************************)
EXTENDS Naturals, Sequences

CONSTANT Chunks   \* the byte sequences one arrival may carry

VARIABLES
    arrived,  \* every byte that arrived, in order
    taken,    \* the bytes the reader has taken, in order
    ended     \* "no", "eof" or "error"

streamVars == <<arrived, taken, ended>>

Init ==
    /\ arrived = <<>>
    /\ taken = <<>>
    /\ ended = "no"

\* A chunk arrives at the end of the stream.
Arrive(chunk) ==
    /\ ended = "no"
    /\ arrived' = arrived \o chunk
    /\ UNCHANGED <<taken, ended>>

\* The reader takes the next k bytes, k at least one.
Take ==
    /\ ended = "no"
    /\ \E k \in 1 .. Len(arrived) - Len(taken) :
         taken' = SubSeq(arrived, 1, Len(taken) + k)
    /\ UNCHANGED <<arrived, ended>>

\* End of stream, once every byte that arrived has been taken.
Finish ==
    /\ ended = "no"
    /\ taken = arrived
    /\ ended' = "eof"
    /\ UNCHANGED <<arrived, taken>>

\* The stream fails; what was not taken yet is lost.
Fail ==
    /\ ended = "no"
    /\ ended' = "error"
    /\ UNCHANGED <<arrived, taken>>

Next ==
    \/ \E chunk \in Chunks : Arrive(chunk)
    \/ Take
    \/ Finish
    \/ Fail

Spec == Init /\ [][Next]_streamVars
=============================================================================
