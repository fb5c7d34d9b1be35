----------------------------- MODULE ProxyCodec -----------------------------
(***************************************************************************)
(* The application codec of src/relaydns/wasm/src/protocol_codec.rs on the *)
(* path a relay response takes to JavaScript: SecureConnection::read copies *)
(* the plaintext into receive_response's 64 KiB buffer, ProxyPacket::decode *)
(* parses the JSON envelope, receive_response keeps a Response payload, and *)
(* the ProxyEngine handler matches the variant it waits for.               *)
(*                                                                         *)
(* A JSON object is abstracted to its "type" tag and the set of its keys;  *)
(* serde writes every field of a variant (None as null) and, reading,      *)
(* ignores unknown keys and lets an Option field be absent.  The field     *)
(* values play no part: where two variants share a tag their shared fields *)
(* have the same types.  A packet's length is a number: read_length_prefixed *)
(* passes frames up to MAX_RAW_PACKET_SIZE (2^26), and a strict prefix of a *)
(* JSON object is never a JSON object.                                     *)
(***************************************************************************)
EXTENDS Naturals

CONSTANTS
    ReadBuf,    \* length of receive_response's buffer (65536)
    MaxSize     \* bound: length of an encoded packet (up to 2^26)

\* The fields serde writes for each ProxyRequest and ProxyResponse variant,
\* by the variant's "type" tag.
RequestFields ==
    [http |-> {"method", "url", "headers", "body"},
     ws_open |-> {"url", "protocols"},
     ws_message |-> {"tunnel_id", "data"},
     ws_close |-> {"tunnel_id", "code", "reason"},
     tcp_connect |-> {"host", "port"},
     tcp_data |-> {"tunnel_id", "data"},
     tcp_close |-> {"tunnel_id"}]

ResponseFields ==
    [http |-> {"status", "status_text", "headers", "body"},
     ws_opened |-> {"tunnel_id", "protocol"},
     ws_message |-> {"tunnel_id", "data"},
     ws_closed |-> {"tunnel_id", "code", "reason"},
     tcp_connected |-> {"tunnel_id"},
     tcp_data |-> {"tunnel_id", "data"},
     tcp_closed |-> {"tunnel_id"},
     error |-> {"request_id", "error"}]

\* The Option fields, which deserialise when the key is missing.
RequestOptional == {"body"}
ResponseOptional == {"protocol"}

\* The ProxyEngine entry points that wait for a response.
Ops == {"http", "wsOpen", "wsRecv", "tcp"}

\* The response variants each handler returns to JavaScript as a success.
Accepted == [http |-> {"http"}, wsOpen |-> {"ws_opened"},
             wsRecv |-> {"ws_message", "ws_closed"}, tcp |-> {"tcp_connected"}]

Responses == {[side |-> "response", tag |-> t] : t \in DOMAIN ResponseFields}

DecodeFailed == [side |-> "none", tag |-> "none"]

\* ProxyPacket::encode: serde_json::to_vec writes the variant's tag and
\* every one of its fields.
Encode(p) ==
    [type |-> p.tag,
     keys |-> IF p.side = "request" THEN RequestFields[p.tag] ELSE ResponseFields[p.tag]]

\* An internally tagged enum (#[serde(tag = "type")]) deserialises an
\* object when the tag names one of its variants and every field of that
\* variant that is not an Option is present.
Deserialises(obj, variants, optional) ==
    /\ obj.type \in DOMAIN variants
    /\ variants[obj.type] \ optional \subseteq obj.keys

\* ProxyPacket::decode of ProxyPayload, #[serde(untagged)]: serde tries
\* Request first and Response only if that fails.
Decode(obj) ==
    IF Deserialises(obj, RequestFields, RequestOptional)
      THEN [side |-> "request", tag |-> obj.type]
    ELSE IF Deserialises(obj, ResponseFields, ResponseOptional)
      THEN [side |-> "response", tag |-> obj.type]
    ELSE DecodeFailed

\* SecureConnection::read copies min(buf.len(), plaintext.len()) bytes and
\* drops the rest; receive_response decodes what was copied.
ReadAndDecode(obj, size) == IF size > ReadBuf THEN DecodeFailed ELSE Decode(obj)

\* receive_response then the handler's match: a payload that is not a
\* Response is "unexpected packet type"; an accepted variant is returned;
\* an Error variant is reported as the relay's error by every handler but
\* receiveWebSocketMessage; any other variant is "unexpected response type".
HandlerResult(o, payload) ==
    IF payload.side # "response" THEN "receiveError"
    ELSE IF payload.tag \in Accepted[o] THEN payload.tag
    ELSE IF payload.tag = "error" /\ o # "wsRecv" THEN "relayError"
    ELSE "unexpectedResponse"

VARIABLES
    op,         \* the handler awaiting a response, or "none"
    reply,      \* the response the relay sent, or DecodeFailed before it does
    size,       \* length of the encoded reply
    result      \* what the handler returned, or "none"

vars == <<op, reply, size, result>>

TypeOK ==
    /\ op \in Ops \cup {"none"}
    /\ reply \in Responses \cup {DecodeFailed}
    /\ size \in 0 .. MaxSize
    /\ result \in {"none", "receiveError", "relayError", "unexpectedResponse"}
                    \cup DOMAIN ResponseFields

Init ==
    /\ op = "none"
    /\ reply = DecodeFailed
    /\ size = 0
    /\ result = "none"

\* JavaScript calls a handler; it has sent its request and awaits the reply.
Call(o) ==
    /\ op = "none"
    /\ op' = o
    /\ UNCHANGED <<reply, size, result>>

\* The relay answers with any response variant of any encoded length.
RelayReplies(r, s) ==
    /\ op # "none"
    /\ reply = DecodeFailed
    /\ reply' = r
    /\ size' = s
    /\ UNCHANGED <<op, result>>

\* receive_response reads, decodes and returns; the handler matches.
Receive ==
    /\ reply # DecodeFailed
    /\ result = "none"
    /\ result' = HandlerResult(op, ReadAndDecode(Encode(reply), size))
    /\ UNCHANGED <<op, reply, size>>

Next ==
    \/ \E o \in Ops : Call(o)
    \/ \E r \in Responses, s \in 1 .. MaxSize : RelayReplies(r, s)
    \/ Receive

Spec == Init /\ [][Next]_vars

\* Spec 4.6 / 6: receive_response dispatches on the "type" tag and returns
\* the response payload, so a response of a variant the waiting handler
\* accepts, in a frame the reader accepts, reaches JavaScript as that
\* variant.
ResponseReachesHandler ==
    result # "none" /\ reply.tag \in Accepted[op] => result = reply.tag
=============================================================================
