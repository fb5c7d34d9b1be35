--------------------------- MODULE SecureChannel ---------------------------
(***************************************************************************)
(* The client side of one end-to-end encrypted tunnel connection:          *)
(* SecureConnection::client_handshake, SecureConnection::read and          *)
(* SecureConnection::write of src/portal/wasm/src/crypto.rs, over one      *)
(* length-prefixed frame stream in each direction.                         *)
(*                                                                         *)
(* The peer (the relay service) is not code of this repository; it is the  *)
(* environment, written from the spec: it answers the ClientInit with one  *)
(* ServerInit, sends its frames under its initial nonce and increments     *)
(* after each, and expects the client's first frame under client_nonce+1.  *)
(* The transport between the two is untrusted: on the server-to-client     *)
(* stream an attacker may drop, swap, replay or forge frames.               *)
(*                                                                         *)
(* Data is abstracted: a nonce is its 12-byte big-endian value modulo      *)
(* NonceSpace (2^96 in the code; the byte-wise carry of increment_nonce is *)
(* checked against this in NonceIncrement.tla), an AEAD ciphertext is the  *)
(* record of the key, nonce and plaintext it was sealed with, and a key is *)
(* named by its direction.                                                 *)
(***************************************************************************)
EXTENDS Naturals, Integers, Sequences, SequencesExt

CONSTANTS
    NonceSpace,   \* number of distinct nonce values (2^96 in the code)
    Msgs,         \* application payloads
    ServerInits,  \* the ServerInit frames the peer may answer with
    MaxSend,      \* bound: frames each side encrypts
    MaxAttacks    \* bound: attacker steps on the server-to-client stream

Nonces == 0 .. NonceSpace - 1

\* A nonce field of the wrong length (crypto.rs:203), kept apart from Nonces.
WrongLen == -1

\* The decoded ServerInitPayload inside a SignedPayload, reduced to what
\* client_handshake checks: version, presence of identity, the strict
\* signature check, the length of session_public_key and of nonce.
ServerInitFrames ==
    [kind : {"init"}, version : {1, 2}, identity : BOOLEAN, sigOk : BOOLEAN,
     keyOk : BOOLEAN, nonceOk : BOOLEAN, nonce : Nonces]

ASSUME NonceSpaceAssumption == NonceSpace \in Nat \ {0}
ASSUME MaxSendAssumption == MaxSend \in Nat
ASSUME MaxAttacksAssumption == MaxAttacks \in Nat
ASSUME MsgsAssumption == Msgs # {}
ASSUME ServerInitsAssumption == ServerInits \subseteq ServerInitFrames

\* Mutant of Inc for TypeOK: a counter that is never reduced to 12 bytes.
IncUnbounded(n) == n + 1

\* increment_nonce: the 12 bytes as one big-endian counter, wrapping at the top.
Inc(n) == (n + 1) % NonceSpace

\* ChaCha20Poly1305 ciphertext; "forged" stands for bytes no key opens.
Ciphertexts == [key : {"c2s", "s2c", "forged"}, nonce : Nonces \cup {WrongLen}, msg : Msgs]
Seal(key, n, m) == [key |-> key, nonce |-> n, msg |-> m]
Opens(ct, key, n) == ct.key = key /\ ct.nonce = n
ForgedCt == Seal("forged", WrongLen, CHOOSE m \in Msgs : TRUE)

\* EncryptedData{nonce, payload}; a "junk" frame is one that does not decode.
EncFrames == [kind : {"enc"}, nonce : Nonces \cup {WrongLen}, ct : Ciphertexts]
EncFrame(n, ct) == [kind |-> "enc", nonce |-> n, ct |-> ct]
Junk == [kind |-> "junk"]
ClientInitFrame(n) == [kind |-> "init", nonce |-> n]
Frames == EncFrames \cup ServerInitFrames \cup {Junk}
            \cup {ClientInitFrame(n) : n \in Nonces}

Phases == {"idle", "awaitServerInit", "established", "failed", "panicked"}
ReadResults == {"none", "ok", "eof", "decodeError", "invalidNonceSize",
                "nonceMismatch", "decryptFailed"}

VARIABLES
    phase,          \* where client_handshake, then the connection, stands
    clientNonce,    \* client_nonce drawn for the ClientInit
    encryptNonce,   \* SecureConnection.encrypt_nonce
    decryptNonce,   \* SecureConnection.decrypt_nonce
    readResult,     \* outcome of the last SecureConnection::read
    connOpen,       \* the transport neither closed nor errored
    c2s,            \* frames on the client-to-server stream
    s2c,            \* frames on the server-to-client stream
    srvPhase,       \* the peer: "listening", "established" or "broken"
    srvEncrypt,     \* the peer's next send nonce
    srvDecrypt,     \* the peer's expected receive nonce
    srvNonce,       \* the nonce of the ServerInit the peer sent
    s2cCts,         \* every ciphertext the peer emitted (what an attacker can replay)
    attacks,        \* attacker steps taken
    sealed,         \* history: nonces the client encrypted under, in order
    clientSent,     \* history: payloads the client put on the wire
    serverSent,     \* history: payloads the peer put on the wire
    clientReceived, \* history: payloads client reads returned
    serverReceived  \* history: payloads the peer accepted

vars == <<phase, clientNonce, encryptNonce, decryptNonce, readResult, connOpen,
          c2s, s2c, srvPhase, srvEncrypt, srvDecrypt, srvNonce, s2cCts, attacks,
          sealed, clientSent, serverSent, clientReceived, serverReceived>>
peerVars == <<srvPhase, srvEncrypt, srvDecrypt, srvNonce, s2cCts, serverSent, serverReceived>>

TypeOK ==
    /\ phase \in Phases
    /\ clientNonce \in Nonces
    /\ encryptNonce \in Nonces
    /\ decryptNonce \in Nonces
    /\ readResult \in ReadResults
    /\ connOpen \in BOOLEAN
    /\ c2s \in Seq(Frames)
    /\ s2c \in Seq(Frames)
    /\ srvPhase \in {"listening", "established", "broken"}
    /\ srvEncrypt \in Nonces
    /\ srvDecrypt \in Nonces
    /\ srvNonce \in Nonces
    /\ s2cCts \subseteq Ciphertexts
    /\ attacks \in 0 .. MaxAttacks
    /\ sealed \in Seq(Nonces)
    /\ clientSent \in Seq(Msgs)
    /\ serverSent \in Seq(Msgs)
    /\ clientReceived \in Seq(Msgs)
    /\ serverReceived \in Seq(Msgs)

Init ==
    /\ phase = "idle"
    /\ clientNonce = 0
    /\ encryptNonce = 0
    /\ decryptNonce = 0
    /\ readResult = "none"
    /\ connOpen = TRUE
    /\ c2s = <<>>
    /\ s2c = <<>>
    /\ srvPhase = "listening"
    /\ srvEncrypt = 0
    /\ srvDecrypt = 0
    /\ srvNonce = 0
    /\ s2cCts = {}
    /\ attacks = 0
    /\ sealed = <<>>
    /\ clientSent = <<>>
    /\ serverSent = <<>>
    /\ clientReceived = <<>>
    /\ serverReceived = <<>>
-----------------------------------------------------------------------------
(***************************************************************************)
(* Client: client_handshake.                                               *)
(***************************************************************************)

\* Draw client_nonce, sign and send the ClientInit frame; a closed
\* transport fails write_length_prefixed and aborts the handshake.
ClientSendInit ==
    /\ phase = "idle"
    /\ \E n \in Nonces :
         /\ clientNonce' = n
         /\ IF connOpen
              THEN /\ c2s' = Append(c2s, ClientInitFrame(n))
                   /\ phase' = "awaitServerInit"
              ELSE /\ phase' = "failed"
                   /\ UNCHANGED c2s
    /\ UNCHANGED <<encryptNonce, decryptNonce, readResult, connOpen, s2c,
                   attacks, sealed, clientSent, clientReceived, peerVars>>

\* The checks client_handshake makes before deriving keys, in code order:
\* decodes as a ServerInit, version 1, identity present, signature verifies,
\* session_public_key is 32 bytes.  The nonce length is not checked.
ServerInitAccepted(f) ==
    /\ f.kind = "init"
    /\ f.version = 1
    /\ f.identity
    /\ f.sigOk
    /\ f.keyOk

\* Mutant of StartConnection for ServerStreamDelivered: the client expects
\* the server's first frame under the server nonce plus one.
StartConnectionPreIncrement(f) ==
    /\ encryptNonce' = clientNonce
    /\ decryptNonce' = Inc(f.nonce)

\* Lines 185-191: the connection's counters start at the two handshake nonces.
StartConnection(f) ==
    /\ encryptNonce' = clientNonce
    /\ decryptNonce' = f.nonce

\* Read one frame as the ServerInit.  End of stream, or a frame that fails
\* a check, aborts; a frame that passes them all but carries a nonce that is
\* not 12 bytes reaches the unwrap of crypto.rs:190 and panics; otherwise the
\* connection starts with encrypt_nonce = client_nonce and
\* decrypt_nonce = the server's nonce.
ClientRecvServerInit ==
    /\ phase = "awaitServerInit"
    /\ \/ /\ s2c = <<>>
          /\ ~connOpen
          /\ phase' = "failed"
          /\ UNCHANGED <<s2c, encryptNonce, decryptNonce>>
       \/ /\ s2c # <<>>
          /\ s2c' = Tail(s2c)
          /\ LET f == Head(s2c) IN
               CASE ~ServerInitAccepted(f) ->
                      phase' = "failed" /\ UNCHANGED <<encryptNonce, decryptNonce>>
                 [] ServerInitAccepted(f) /\ ~f.nonceOk ->
                      phase' = "panicked" /\ UNCHANGED <<encryptNonce, decryptNonce>>
                 [] OTHER -> phase' = "established" /\ StartConnection(f)
    /\ UNCHANGED <<clientNonce, readResult, connOpen, c2s, attacks, sealed,
                   clientSent, clientReceived, peerVars>>

-----------------------------------------------------------------------------
(***************************************************************************)
(* Client: SecureConnection::write and SecureConnection::read.             *)
(***************************************************************************)

\* Mutant of ClientWrite for EncryptNonceNeverReused: the increment dropped.
ClientWriteNoIncrement(m) ==
    /\ phase = "established"
    /\ Len(sealed) < MaxSend
    /\ sealed' = Append(sealed, encryptNonce)
    /\ IF connOpen
         THEN /\ c2s' = Append(c2s, EncFrame(encryptNonce, Seal("c2s", encryptNonce, m)))
              /\ clientSent' = Append(clientSent, m)
         ELSE UNCHANGED <<c2s, clientSent>>
    /\ UNCHANGED <<phase, clientNonce, encryptNonce, decryptNonce, readResult,
                   connOpen, s2c, attacks, clientReceived, peerVars>>

\* Mutant of ClientWrite for ClientStreamDelivered: seal and send under the
\* current nonce, increment afterwards.
ClientWriteSealBeforeIncrement(m) ==
    /\ phase = "established"
    /\ Len(sealed) < MaxSend
    /\ encryptNonce' = Inc(encryptNonce)
    /\ sealed' = Append(sealed, encryptNonce)
    /\ IF connOpen
         THEN /\ c2s' = Append(c2s, EncFrame(encryptNonce, Seal("c2s", encryptNonce, m)))
              /\ clientSent' = Append(clientSent, m)
         ELSE UNCHANGED <<c2s, clientSent>>
    /\ UNCHANGED <<phase, clientNonce, decryptNonce, readResult, connOpen, s2c,
                   attacks, clientReceived, peerVars>>

\* write: increment encrypt_nonce, seal under it, send EncryptedData with the
\* new nonce.  The nonce is spent before the send, so a send on a closed
\* transport fails after sealing.
ClientWrite(m) ==
    /\ phase = "established"
    /\ Len(sealed) < MaxSend
    /\ LET n == Inc(encryptNonce) IN
         /\ encryptNonce' = n
         /\ sealed' = Append(sealed, n)
         /\ IF connOpen
              THEN /\ c2s' = Append(c2s, EncFrame(n, Seal("c2s", n, m)))
                   /\ clientSent' = Append(clientSent, m)
              ELSE UNCHANGED <<c2s, clientSent>>
    /\ UNCHANGED <<phase, clientNonce, decryptNonce, readResult, connOpen, s2c,
                   attacks, clientReceived, peerVars>>

\* Mutant of ClientReadAccept for ClientReceivesServerStream: decrypt_nonce
\* is not advanced after a successful read.
ClientReadAcceptNoIncrement(f) ==
    /\ UNCHANGED decryptNonce
    /\ clientReceived' = Append(clientReceived, f.ct.msg)
    /\ readResult' = "ok"

\* read, success path: the frame's nonce is decrypt_nonce and the payload
\* opens under it; decrypt_nonce is incremented after decryption.
ClientReadAccept(f) ==
    /\ decryptNonce' = Inc(decryptNonce)
    /\ clientReceived' = Append(clientReceived, f.ct.msg)
    /\ readResult' = "ok"

\* The checks of crypto.rs:199-223 on one frame, in code order: it decodes
\* as EncryptedData, its nonce is 12 bytes, equals decrypt_nonce, and the
\* payload opens under it.  The first that fails names the error.
ReadOutcome(f) ==
    IF f.kind # "enc" THEN "decodeError"
    ELSE IF f.nonce = WrongLen THEN "invalidNonceSize"
    ELSE IF f.nonce # decryptNonce THEN "nonceMismatch"
    ELSE IF ~Opens(f.ct, "s2c", decryptNonce) THEN "decryptFailed"
    ELSE "ok"

\* read: one frame, then its checks.  Every error consumes the frame and
\* leaves decrypt_nonce as it was.  An empty stream suspends the read until
\* the transport closes (then end of stream).
ClientRead ==
    /\ phase = "established"
    /\ \/ /\ s2c = <<>>
          /\ ~connOpen
          /\ readResult' = "eof"
          /\ UNCHANGED <<s2c, decryptNonce, clientReceived>>
       \/ /\ s2c # <<>>
          /\ s2c' = Tail(s2c)
          /\ IF ReadOutcome(Head(s2c)) = "ok"
               THEN ClientReadAccept(Head(s2c))
               ELSE /\ readResult' = ReadOutcome(Head(s2c))
                    /\ UNCHANGED <<decryptNonce, clientReceived>>
    /\ UNCHANGED <<phase, clientNonce, encryptNonce, connOpen, c2s, attacks,
                   sealed, clientSent, serverSent, peerVars>>

-----------------------------------------------------------------------------
(***************************************************************************)
(* Environment: the peer, the transport and the attacker.                  *)
(***************************************************************************)

\* The peer answers the ClientInit with one of ServerInits; from then on it
\* sends under its initial nonce and expects client_nonce + 1 first.
ServerRecvClientInit ==
    /\ srvPhase = "listening"
    /\ connOpen
    /\ c2s # <<>>
    /\ Head(c2s).kind = "init"
    /\ \E si \in ServerInits :
         /\ s2c' = Append(s2c, si)
         /\ srvEncrypt' = si.nonce
         /\ srvNonce' = si.nonce
    /\ c2s' = Tail(c2s)
    /\ srvDecrypt' = Inc(Head(c2s).nonce)
    /\ srvPhase' = "established"
    /\ UNCHANGED <<phase, clientNonce, encryptNonce, decryptNonce, readResult,
                   connOpen, s2cCts, attacks, sealed, clientSent, serverSent,
                   clientReceived, serverReceived>>

\* The peer seals m under its current nonce, sends it, then increments.
ServerWrite(m) ==
    /\ srvPhase = "established"
    /\ connOpen
    /\ Len(serverSent) < MaxSend
    /\ LET ct == Seal("s2c", srvEncrypt, m) IN
         /\ s2c' = Append(s2c, EncFrame(srvEncrypt, ct))
         /\ s2cCts' = s2cCts \cup {ct}
    /\ srvEncrypt' = Inc(srvEncrypt)
    /\ serverSent' = Append(serverSent, m)
    /\ UNCHANGED <<phase, clientNonce, encryptNonce, decryptNonce, readResult,
                   connOpen, c2s, srvPhase, srvDecrypt, srvNonce, attacks, sealed,
                   clientSent, clientReceived, serverReceived>>

\* The peer reads one frame; a frame it cannot accept ends the channel.
ServerRead ==
    /\ srvPhase = "established"
    /\ c2s # <<>>
    /\ c2s' = Tail(c2s)
    /\ LET f == Head(c2s) IN
         IF f.kind = "enc" /\ f.nonce = srvDecrypt /\ Opens(f.ct, "c2s", srvDecrypt)
           THEN /\ serverReceived' = Append(serverReceived, f.ct.msg)
                /\ srvDecrypt' = Inc(srvDecrypt)
                /\ UNCHANGED srvPhase
           ELSE /\ srvPhase' = "broken"
                /\ UNCHANGED <<serverReceived, srvDecrypt>>
    /\ UNCHANGED <<phase, clientNonce, encryptNonce, decryptNonce, readResult,
                   connOpen, s2c, srvEncrypt, srvNonce, s2cCts, attacks, sealed,
                   clientSent, serverSent, clientReceived>>

\* The WebSocket closes or errors (onclose / onerror set the closed latch).
TransportClose ==
    /\ connOpen
    /\ connOpen' = FALSE
    /\ UNCHANGED <<phase, clientNonce, encryptNonce, decryptNonce, readResult,
                   c2s, s2c, attacks, sealed, clientSent, clientReceived, peerVars>>

\* Frames an attacker can build: any nonce field around a ciphertext the
\* peer emitted or around bytes no key opens, or bytes that do not decode.
Forgeable ==
    {EncFrame(n, ct) : n \in Nonces \cup {WrongLen}, ct \in s2cCts \cup {ForgedCt}}
        \cup {Junk}

AttackerInject ==
    /\ attacks < MaxAttacks
    /\ \E f \in Forgeable : s2c' = Append(s2c, f)
    /\ attacks' = attacks + 1
    /\ UNCHANGED <<phase, clientNonce, encryptNonce, decryptNonce, readResult,
                   connOpen, c2s, sealed, clientSent, clientReceived, peerVars>>

AttackerDrop ==
    /\ attacks < MaxAttacks
    /\ \E i \in 1 .. Len(s2c) : s2c' = RemoveAt(s2c, i)
    /\ attacks' = attacks + 1
    /\ UNCHANGED <<phase, clientNonce, encryptNonce, decryptNonce, readResult,
                   connOpen, c2s, sealed, clientSent, clientReceived, peerVars>>

AttackerSwap ==
    /\ attacks < MaxAttacks
    /\ \E i \in 1 .. Len(s2c) - 1 :
         s2c' = [s2c EXCEPT ![i] = s2c[i + 1], ![i + 1] = s2c[i]]
    /\ attacks' = attacks + 1
    /\ UNCHANGED <<phase, clientNonce, encryptNonce, decryptNonce, readResult,
                   connOpen, c2s, sealed, clientSent, clientReceived, peerVars>>

-----------------------------------------------------------------------------

Next ==
    \/ ClientSendInit
    \/ ClientRecvServerInit
    \/ \E m \in Msgs : ClientWrite(m)
    \/ ClientRead
    \/ ServerRecvClientInit
    \/ \E m \in Msgs : ServerWrite(m)
    \/ ServerRead
    \/ TransportClose
    \/ AttackerInject
    \/ AttackerDrop
    \/ AttackerSwap

Spec == Init /\ [][Next]_vars

\* Every read the client or the peer has pending is resumed when a frame
\* arrives: the handshake awaits the ServerInit, the callers of read await
\* the response, and the adapter's onmessage wakes the parked reader.
Fairness ==
    /\ WF_vars(ClientRecvServerInit)
    /\ WF_vars(ClientRead)
    /\ WF_vars(ServerRecvClientInit)
    /\ WF_vars(ServerRead)

FairSpec == Spec /\ Fairness

-----------------------------------------------------------------------------
(***************************************************************************)
(* Properties.                                                             *)
(***************************************************************************)

\* Integrity and order of the server-to-client stream under an attacker who
\* drops, swaps, replays and forges frames: what SecureConnection::read
\* returns is exactly the peer's payloads, in order, none twice and none
\* skipped (spec 4.4: nonce equality check, AEAD open, increment after).
ClientReceivesServerStream == IsPrefix(clientReceived, serverSent)

\* Spec 3 / 8.5: SecureConnection::write never seals two messages under the
\* same encrypt nonce over the life of the connection.
EncryptNonceNeverReused == IsInjective(sealed)

\* Every payload the peer sends on an established connection is eventually
\* returned by a client read, when nothing attacks the stream: the client's
\* decrypt_nonce starts at the server's initial nonce (spec 4.4).
ServerStreamDelivered ==
    [](attacks = 0) =>
    \A k \in 1 .. MaxSend :
        (phase = "established" /\ Len(serverSent) >= k) ~> (Len(clientReceived) >= k)

\* Every payload SecureConnection::write puts on the wire is eventually
\* accepted by the peer, when nothing attacks the stream: the first frame
\* carries client_nonce + 1 and each next one the previous plus one
\* (spec 8.1, 8.4).
ClientStreamDelivered ==
    [](attacks = 0) =>
    \A k \in 1 .. MaxSend :
        (Len(clientSent) >= k) ~> (Len(serverReceived) >= k)

\* Spec 4.3: a malformed ServerInit aborts the handshake with an error and
\* leaves nothing behind; client_handshake never panics.
HandshakeFailsCleanly == phase # "panicked"
=============================================================================
