------------------------- MODULE SecureChannelProofs -------------------------
(***************************************************************************)
(* Proofs about SecureChannel for every value of its constants.            *)
(***************************************************************************)
EXTENDS SecureChannel, SequenceTheorems, TLAPS

USE NonceSpaceAssumption, MaxSendAssumption, MaxAttacksAssumption,
    MsgsAssumption, ServerInitsAssumption

-----------------------------------------------------------------------------
(***************************************************************************)
(* Lemmas about the operators the model is built from.                    *)
(***************************************************************************)

\* Inc stays in the nonce space.
LEMMA IncType == \A n \in Nonces : Inc(n) \in Nonces
BY DEF Inc, Nonces

\* The attacker's drop (RemoveAt) keeps a stream of frames a stream of
\* frames of the same kind; the invariants below are stated as the set of
\* frames a stream may hold, so this is all they need of it.
LEMMA RemoveAtType ==
    ASSUME NEW S, NEW s \in Seq(S), NEW i \in 1 .. Len(s)
    PROVE  RemoveAt(s, i) \in Seq(S)
<1>1. SubSeq(s, 1, i - 1) \in Seq(S)
  BY SubSeqProperties
<1>2. SubSeq(s, i + 1, Len(s)) \in Seq(S)
  BY SubSeqProperties
<1>3. QED
  BY <1>1, <1>2, ConcatProperties DEF RemoveAt

\* The attacker's swap of two neighbouring frames likewise.
LEMMA SwapType ==
    ASSUME NEW S, NEW s \in Seq(S), NEW i \in 1 .. Len(s) - 1
    PROVE  [s EXCEPT ![i] = s[i + 1], ![i + 1] = s[i]] \in Seq(S)
OBVIOUS

\* The forged ciphertext is a ciphertext.
LEMMA ForgedCtType == ForgedCt \in Ciphertexts
BY DEF ForgedCt, Seal, Ciphertexts

-----------------------------------------------------------------------------
(***************************************************************************)
(* Type correctness.                                                       *)
(***************************************************************************)

\* One step of any actor keeps every variable in its type.
LEMMA TypeStep == TypeOK /\ [Next]_vars => TypeOK'
<1> SUFFICES ASSUME TypeOK, [Next]_vars PROVE TypeOK'
  OBVIOUS
<1>1. CASE ClientSendInit
  <2>1. PICK n \in Nonces :
          /\ clientNonce' = n
          /\ IF connOpen
               THEN /\ c2s' = Append(c2s, ClientInitFrame(n))
                    /\ phase' = "awaitServerInit"
               ELSE /\ phase' = "failed"
                    /\ UNCHANGED c2s
    BY <1>1 DEF ClientSendInit
  <2>2. ClientInitFrame(n) \in Frames
    BY DEF Frames
  <2>3. c2s' \in Seq(Frames)
    <3>1. CASE connOpen
      <4>1. Append(c2s, ClientInitFrame(n)) \in Seq(Frames)
        BY <2>2, AppendProperties DEF TypeOK
      <4>2. QED
        BY <2>1, <3>1, <4>1
    <3>2. CASE ~connOpen
      BY <2>1, <3>2 DEF TypeOK
    <3>3. QED
      BY <3>1, <3>2
  <2>4. phase' \in Phases
    BY <2>1 DEF Phases
  <2>5. QED
    BY <1>1, <2>1, <2>3, <2>4 DEF ClientSendInit, TypeOK, peerVars
<1>2. CASE ClientRecvServerInit
  <2>1. s2c # <<>> => Head(s2c) \in Frames /\ Tail(s2c) \in Seq(Frames)
    BY HeadTailProperties DEF TypeOK
  <2>2. ASSUME s2c # <<>>, Head(s2c).kind = "init"
        PROVE  Head(s2c).nonce \in Nonces
    BY <2>1, <2>2 DEF Frames, EncFrames, ServerInitFrames, ClientInitFrame, Junk
  <2>3. QED
    BY <1>2, <2>1, <2>2 DEF ClientRecvServerInit, ServerInitAccepted,
       StartConnection, TypeOK, peerVars, Phases
<1>3. ASSUME NEW m \in Msgs, ClientWrite(m) PROVE TypeOK'
  <2> DEFINE n == Inc(encryptNonce)
  <2>1. n \in Nonces
    BY IncType DEF TypeOK
  <2>2. EncFrame(n, Seal("c2s", n, m)) \in Frames
    BY <2>1 DEF Frames, EncFrames, EncFrame, Seal, Ciphertexts
  <2>3. /\ encryptNonce' = n
        /\ sealed' = Append(sealed, n)
        /\ IF connOpen
             THEN /\ c2s' = Append(c2s, EncFrame(n, Seal("c2s", n, m)))
                  /\ clientSent' = Append(clientSent, m)
             ELSE UNCHANGED <<c2s, clientSent>>
    BY <1>3 DEF ClientWrite
  <2>4. sealed' \in Seq(Nonces)
    BY <2>1, <2>3, AppendProperties DEF TypeOK
  <2>5. c2s' \in Seq(Frames) /\ clientSent' \in Seq(Msgs)
    <3>1. CASE connOpen
      <4>1. Append(c2s, EncFrame(n, Seal("c2s", n, m))) \in Seq(Frames)
        BY <2>2, AppendProperties DEF TypeOK
      <4>2. Append(clientSent, m) \in Seq(Msgs)
        BY AppendProperties DEF TypeOK
      <4>3. QED
        BY <2>3, <3>1, <4>1, <4>2
    <3>2. CASE ~connOpen
      BY <2>3, <3>2 DEF TypeOK
    <3>3. QED
      BY <3>1, <3>2
  <2>6. QED
    BY <1>3, <2>1, <2>3, <2>4, <2>5 DEF ClientWrite, TypeOK, peerVars
<1>4. CASE ClientRead
  <2>1. CASE s2c = <<>>
    BY <1>4, <2>1 DEF ClientRead, TypeOK, peerVars, ReadResults
  <2>2. CASE s2c # <<>>
    <3> DEFINE f == Head(s2c)
    <3>1. f \in Frames /\ Tail(s2c) \in Seq(Frames)
      BY <2>2, HeadTailProperties DEF TypeOK
    <3>2. s2c' = Tail(s2c)
      BY <1>4, <2>2 DEF ClientRead
    <3>3. readResult' \in ReadResults
      BY <1>4, <2>2 DEF ClientRead, ClientReadAccept, ReadOutcome, ReadResults
    <3>4. decryptNonce' \in Nonces /\ clientReceived' \in Seq(Msgs)
      <4>1. CASE f.kind = "enc" /\ f.nonce # WrongLen /\ f.nonce = decryptNonce
                 /\ Opens(f.ct, "s2c", decryptNonce)
        <5>1. f.ct.msg \in Msgs
          BY <3>1, <4>1 DEF Frames, EncFrames, Ciphertexts, ServerInitFrames,
             ClientInitFrame, Junk
        <5>2. ClientReadAccept(f)
          BY <1>4, <2>2, <4>1 DEF ClientRead, ReadOutcome
        <5>3. QED
          BY <5>1, <5>2, IncType, AppendProperties DEF ClientReadAccept, TypeOK
      <4>2. CASE ~(f.kind = "enc" /\ f.nonce # WrongLen /\ f.nonce = decryptNonce
                   /\ Opens(f.ct, "s2c", decryptNonce))
        BY <1>4, <2>2, <4>2 DEF ClientRead, ReadOutcome, TypeOK
      <4>3. QED
        BY <4>1, <4>2
    <3>5. QED
      BY <1>4, <3>1, <3>2, <3>3, <3>4 DEF ClientRead, TypeOK, peerVars
  <2>3. QED
    BY <2>1, <2>2
<1>5. CASE ServerRecvClientInit
  <2>1. Head(c2s) \in Frames /\ Tail(c2s) \in Seq(Frames)
    BY <1>5, HeadTailProperties DEF ServerRecvClientInit, TypeOK
  <2>2. Head(c2s).nonce \in Nonces
    BY <1>5, <2>1 DEF ServerRecvClientInit, Frames, EncFrames, ServerInitFrames,
       ClientInitFrame, Junk
  <2>3. QED
    BY <1>5, <2>1, <2>2, IncType DEF ServerRecvClientInit, TypeOK, Frames,
       ServerInitFrames
<1>6. ASSUME NEW m \in Msgs, ServerWrite(m) PROVE TypeOK'
  <2> DEFINE ct == Seal("s2c", srvEncrypt, m)
  <2>1. ct \in Ciphertexts /\ EncFrame(srvEncrypt, ct) \in Frames
    BY DEF TypeOK, Frames, EncFrames, EncFrame, Seal, Ciphertexts, Nonces
  <2>2. /\ s2c' = Append(s2c, EncFrame(srvEncrypt, ct))
        /\ s2cCts' = s2cCts \cup {ct}
        /\ serverSent' = Append(serverSent, m)
    BY <1>6 DEF ServerWrite
  <2>3. s2c' \in Seq(Frames) /\ s2cCts' \subseteq Ciphertexts /\ serverSent' \in Seq(Msgs)
    BY <2>1, <2>2, AppendProperties DEF TypeOK
  <2>4. QED
    BY <1>6, <2>3, IncType DEF ServerWrite, TypeOK
<1>7. CASE ServerRead
  <2> DEFINE f == Head(c2s)
  <2>1. f \in Frames /\ Tail(c2s) \in Seq(Frames)
    BY <1>7, HeadTailProperties DEF ServerRead, TypeOK
  <2>2. serverReceived' \in Seq(Msgs) /\ srvDecrypt' \in Nonces
    <3>1. CASE f.kind = "enc" /\ f.nonce = srvDecrypt /\ Opens(f.ct, "c2s", srvDecrypt)
      <4>1. f.ct.msg \in Msgs
        BY <2>1, <3>1 DEF Frames, EncFrames, Ciphertexts, ServerInitFrames,
           ClientInitFrame, Junk
      <4>2. Append(serverReceived, f.ct.msg) \in Seq(Msgs)
        BY <4>1, AppendProperties DEF TypeOK
      <4>3. Inc(srvDecrypt) \in Nonces
        BY IncType DEF TypeOK
      <4>4. QED
        BY <1>7, <3>1, <4>2, <4>3 DEF ServerRead
    <3>2. CASE ~(f.kind = "enc" /\ f.nonce = srvDecrypt /\ Opens(f.ct, "c2s", srvDecrypt))
      BY <1>7, <3>2 DEF ServerRead, TypeOK
    <3>3. QED
      BY <3>1, <3>2
  <2>3. srvPhase' \in {"listening", "established", "broken"}
    BY <1>7 DEF ServerRead, TypeOK
  <2>4. QED
    BY <1>7, <2>1, <2>2, <2>3 DEF ServerRead, TypeOK
<1>8. CASE TransportClose
  BY <1>8 DEF TransportClose, TypeOK, peerVars
<1>9. CASE AttackerInject
  <2>1. Forgeable \subseteq Frames
    BY ForgedCtType DEF Forgeable, TypeOK, Frames, EncFrames, EncFrame, Junk
  <2>2. QED
    BY <1>9, <2>1 DEF AttackerInject, TypeOK, peerVars
<1>10. CASE AttackerDrop
  BY <1>10, RemoveAtType DEF AttackerDrop, TypeOK, peerVars
<1>11. CASE AttackerSwap
  BY <1>11, SwapType DEF AttackerSwap, TypeOK, peerVars
<1>12. CASE UNCHANGED vars
  BY <1>12 DEF vars, TypeOK
<1>13. QED
  BY <1>1, <1>2, <1>3, <1>4, <1>5, <1>6, <1>7, <1>8, <1>9, <1>10, <1>11, <1>12
     DEF Next

\* Every step of the client, the peer, the transport and the attacker keeps
\* each variable in its type: in particular the nonce counters of
\* SecureConnection stay 12-byte values (increment_nonce wraps) and the two
\* frame streams hold only frames.
THEOREM TypeCorrect == Spec => []TypeOK
<1>1. Init => TypeOK
  BY DEF Init, TypeOK, Nonces, Phases, ReadResults
<1>2. QED
  BY <1>1, TypeStep, PTL DEF Spec
-----------------------------------------------------------------------------
(***************************************************************************)
(* The encrypt nonce is never reused while the writes stay below the       *)
(* nonce space.                                                            *)
(***************************************************************************)

\* The counter's value c + k for a start c in the nonce space and an offset
\* k below it: one reduction is enough, so no general modular arithmetic
\* is needed.
Wrap(x) == IF x < NonceSpace THEN x ELSE x - NonceSpace

\* Inc steps the counter one position on.
LEMMA IncWrap ==
    ASSUME NEW c \in Nonces, NEW k \in 0 .. NonceSpace - 2
    PROVE  Inc(Wrap(c + k)) = Wrap(c + k + 1)
<1> DEFINE x == Wrap(c + k)
<1>1. x \in 0 .. NonceSpace - 1
  BY DEF Wrap, Nonces
<1>2. CASE x + 1 < NonceSpace
  <2>1. (x + 1) % NonceSpace = x + 1
    BY <1>1, <1>2
  <2>2. QED
    BY <1>1, <1>2, <2>1 DEF Inc, Wrap, Nonces
<1>3. CASE x + 1 = NonceSpace
  <2>1. \A y \in Int : y = 1 * NonceSpace + 0 => y % NonceSpace = 0
    OBVIOUS
  <2>2. (x + 1) % NonceSpace = 0
    BY <1>3, <2>1
  <2>3. QED
    BY <1>1, <1>3, <2>2 DEF Inc, Wrap, Nonces
<1>4. QED
  BY <1>1, <1>2, <1>3

\* Two offsets below the nonce space from the same start give different
\* counter values.
LEMMA WrapDistinct ==
    ASSUME NEW c \in Nonces, NEW i \in 0 .. NonceSpace - 1,
           NEW j \in 0 .. NonceSpace - 1, Wrap(c + i) = Wrap(c + j)
    PROVE  i = j
BY DEF Wrap, Nonces

\* The strengthening: once the connection is established, write has sealed
\* under client_nonce + 1, + 2, ... in order, and encrypt_nonce is the last
\* of them; before that, nothing has been sealed.
NonceInv ==
    /\ TypeOK
    /\ phase # "established" => sealed = <<>>
    /\ phase = "established" => encryptNonce = Wrap(clientNonce + Len(sealed))
    /\ Len(sealed) <= MaxSend
    /\ \A i \in 1 .. Len(sealed) : sealed[i] = Wrap(clientNonce + i)

\* Initially nothing is sealed.
LEMMA InitNonceInv == Init => NonceInv
BY DEF Init, NonceInv, TypeOK, Nonces, Phases, ReadResults

\* One step of any actor keeps the strengthening, as long as the writes a
\* connection makes stay below the nonce space: only the handshake and
\* write touch the client's counter or the sealed nonces.
LEMMA StepNonceInv ==
    ASSUME MaxSend < NonceSpace
    PROVE  NonceInv /\ [Next]_vars => NonceInv'
<1> SUFFICES ASSUME NonceInv, [Next]_vars PROVE NonceInv'
  OBVIOUS
<1>1. TypeOK'
  BY TypeStep DEF NonceInv
<1>2. CASE ClientSendInit
  BY <1>1, <1>2 DEF ClientSendInit, NonceInv
<1>3. CASE ClientRecvServerInit
  <2>1. sealed = <<>> /\ sealed' = sealed /\ clientNonce' = clientNonce
    BY <1>3 DEF ClientRecvServerInit, NonceInv
  <2>2. phase' = "established" => encryptNonce' = clientNonce
    BY <1>3 DEF ClientRecvServerInit, StartConnection
  <2>3. clientNonce \in Nonces
    BY DEF NonceInv, TypeOK
  <2>4. QED
    BY <1>1, <2>1, <2>2, <2>3 DEF NonceInv, Wrap, Nonces
<1>4. ASSUME NEW m \in Msgs, ClientWrite(m) PROVE NonceInv'
  <2> DEFINE k == Len(sealed)
  <2>1. /\ phase = "established"
        /\ k < MaxSend
        /\ encryptNonce' = Inc(encryptNonce)
        /\ sealed' = Append(sealed, Inc(encryptNonce))
        /\ UNCHANGED <<phase, clientNonce>>
    BY <1>4 DEF ClientWrite
  <2>2. clientNonce \in Nonces /\ k \in 0 .. NonceSpace - 2
    BY <2>1 DEF NonceInv, TypeOK
  <2>3. Inc(encryptNonce) = Wrap(clientNonce + k + 1)
    BY <2>1, <2>2, IncWrap DEF NonceInv
  <2>4. Len(sealed') = k + 1
    BY <2>1 DEF NonceInv, TypeOK
  <2>5. \A i \in 1 .. k + 1 : sealed'[i] = Wrap(clientNonce + i)
    <3>1. sealed \in Seq(Nonces) /\ Inc(encryptNonce) \in Nonces
      BY IncType DEF NonceInv, TypeOK
    <3>2. \A i \in 1 .. k : sealed'[i] = sealed[i]
      BY <2>1, <3>1, AppendProperties
    <3>3. sealed'[k + 1] = Inc(encryptNonce)
      BY <2>1, <3>1, AppendProperties
    <3>4. \A i \in 1 .. k : sealed[i] = Wrap(clientNonce + i)
      BY DEF NonceInv
    <3>5. TAKE i \in 1 .. k + 1
    <3>6. CASE i \in 1 .. k
      BY <3>2, <3>4, <3>6
    <3>7. CASE i = k + 1
      BY <2>2, <2>3, <3>1, <3>3, <3>7 DEF Wrap, Nonces
    <3>8. QED
      BY <3>1, <3>6, <3>7
  <2>6. QED
    BY <1>1, <2>1, <2>3, <2>4, <2>5 DEF NonceInv
<1>5. CASE UNCHANGED <<phase, clientNonce, encryptNonce, sealed>>
  BY <1>1, <1>5 DEF NonceInv
<1>6. QED
  <2>1. CASE ClientRead
    BY <2>1, <1>5 DEF ClientRead
  <2>2. CASE ServerRecvClientInit
    BY <2>2, <1>5 DEF ServerRecvClientInit
  <2>3. CASE \E m \in Msgs : ServerWrite(m)
    BY <2>3, <1>5 DEF ServerWrite
  <2>4. CASE ServerRead
    BY <2>4, <1>5 DEF ServerRead
  <2>5. CASE TransportClose \/ AttackerInject \/ AttackerDrop \/ AttackerSwap
    BY <2>5, <1>5 DEF TransportClose, AttackerInject, AttackerDrop, AttackerSwap
  <2>6. CASE UNCHANGED vars
    BY <2>6, <1>5 DEF vars
  <2>7. QED
    BY <1>2, <1>3, <1>4, <2>1, <2>2, <2>3, <2>4, <2>5, <2>6 DEF Next

\* Spec 3 / 8.5, for every nonce-space size: as long as a connection
\* writes fewer messages than there are nonces, SecureConnection::write
\* never seals two messages under the same encrypt nonce.
THEOREM NonceNeverReused ==
    ASSUME MaxSend < NonceSpace
    PROVE  Spec => []EncryptNonceNeverReused
<1>1. NonceInv => EncryptNonceNeverReused
  <2> SUFFICES ASSUME NonceInv,
                      NEW a \in DOMAIN sealed, NEW b \in DOMAIN sealed,
                      sealed[a] = sealed[b]
               PROVE  a = b
    BY DEF EncryptNonceNeverReused, IsInjective
  <2>1. a \in 1 .. Len(sealed) /\ b \in 1 .. Len(sealed) /\ Len(sealed) <= MaxSend
    BY DEF NonceInv, TypeOK
  <2>2. Wrap(clientNonce + a) = Wrap(clientNonce + b)
    BY <2>1 DEF NonceInv
  <2>3. clientNonce \in Nonces /\ a \in 0 .. NonceSpace - 1 /\ b \in 0 .. NonceSpace - 1
    BY <2>1 DEF NonceInv, TypeOK
  <2>4. QED
    BY <2>2, <2>3, WrapDistinct
<1>2. QED
  BY <1>1, InitNonceInv, StepNonceInv, PTL DEF Spec

-----------------------------------------------------------------------------
(***************************************************************************)
(* The client reads exactly the peer's stream, whatever the attacker does, *)
(* while the peer sends fewer messages than there are nonces.              *)
(***************************************************************************)

\* The peer's nonce for its j-th frame from 0: the ServerInit nonce plus j.
SrvPos(j) == Wrap(srvNonce + j)

\* The ServerInit frames the server-to-client stream may carry: none before
\* the peer answers, then the one it sent, with the nonce it keeps.
InitsSent ==
    IF srvPhase = "listening" THEN {} ELSE {f \in ServerInits : f.nonce = srvNonce}

\* The strengthening.  Every ciphertext the peer emitted is its i-th payload
\* sealed under its i-th nonce; every frame on the stream is one the
\* attacker could build from those, or the ServerInit; the peer's counter
\* is its position, and so is the client's decrypt_nonce, counted by what
\* the client has read, which is a prefix of what the peer sent.
StreamInv ==
    /\ TypeOK
    /\ Len(serverSent) <= MaxSend
    /\ srvPhase = "listening" => serverSent = <<>> /\ s2cCts = {}
    /\ srvPhase # "listening" => srvEncrypt = SrvPos(Len(serverSent))
    /\ \A ct \in s2cCts :
         \E i \in 1 .. Len(serverSent) : ct = Seal("s2c", SrvPos(i - 1), serverSent[i])
    /\ s2c \in Seq(Forgeable \cup InitsSent)
    /\ phase # "established" => clientReceived = <<>>
    /\ phase = "established" =>
         /\ srvPhase # "listening"
         /\ decryptNonce = SrvPos(Len(clientReceived))
    /\ Len(clientReceived) <= Len(serverSent)
    /\ \A i \in 1 .. Len(clientReceived) : clientReceived[i] = serverSent[i]

\* A sequence over a set is a sequence over any larger set: the attacker's
\* material only grows as the peer emits ciphertexts.
LEMMA SeqMonotone ==
    ASSUME NEW S, NEW T, S \subseteq T, NEW s \in Seq(S)
    PROVE  s \in Seq(T)
BY SeqDef

\* The peer's positions below the nonce space are nonces.
LEMMA SrvPosType ==
    ASSUME srvNonce \in Nonces, NEW j \in 0 .. NonceSpace - 1
    PROVE  SrvPos(j) \in Nonces
BY DEF SrvPos, Wrap, Nonces

\* A frame on the stream that decodes as EncryptedData and opens under the
\* server-to-client key is one the peer emitted: the forged ciphertext
\* opens under no key and the ServerInit is not EncryptedData.
LEMMA OpenedIsEmitted ==
    ASSUME NEW f \in Forgeable \cup InitsSent, f.kind = "enc", f.ct.key = "s2c"
    PROVE  f.ct \in s2cCts
<1>1. f \notin InitsSent
  BY ServerInitsAssumption DEF InitsSent, ServerInitFrames
<1>2. f # Junk
  BY DEF Junk
<1>3. PICK n \in Nonces \cup {WrongLen}, ct \in s2cCts \cup {ForgedCt} : f = EncFrame(n, ct)
  BY <1>1, <1>2 DEF Forgeable
<1>4. f.ct = ct /\ ct # ForgedCt
  BY <1>3 DEF EncFrame, ForgedCt, Seal
<1>5. QED
  BY <1>3, <1>4

\* Before the peer answers, the client has read nothing and the stream
\* holds nothing the peer made.
LEMMA InitStreamInv == Init => StreamInv
<1> SUFFICES ASSUME Init PROVE StreamInv
  OBVIOUS
<1>1. TypeOK
  BY DEF Init, TypeOK, Nonces, Phases, ReadResults
<1>2. <<>> \in Seq(Forgeable \cup InitsSent)
  BY EmptySeq
<1>3. QED
  BY <1>1, <1>2 DEF Init, StreamInv

\* The read that accepts a frame: its ciphertext is the peer's next payload
\* under the peer's next nonce, so the client appends exactly that payload
\* and its counter moves one position on.
LEMMA AcceptInv ==
    ASSUME MaxSend < NonceSpace, StreamInv, phase = "established", s2c # <<>>,
           ReadOutcome(Head(s2c)) = "ok", ClientReadAccept(Head(s2c))
    PROVE  /\ Len(clientReceived) < Len(serverSent)
           /\ clientReceived' = Append(clientReceived, serverSent[Len(clientReceived) + 1])
           /\ decryptNonce' = SrvPos(Len(clientReceived'))
           /\ Len(clientReceived') <= Len(serverSent)
           /\ \A i \in 1 .. Len(clientReceived') : clientReceived'[i] = serverSent[i]
<1> DEFINE f == Head(s2c)
           k == Len(clientReceived)
<1>1. /\ f.kind = "enc"
      /\ f.nonce = decryptNonce
      /\ f.ct.key = "s2c"
      /\ f.ct.nonce = decryptNonce
  BY DEF ReadOutcome, Opens
<1>2. f \in Forgeable \cup InitsSent
  BY HeadTailProperties DEF StreamInv
<1>3. f.ct \in s2cCts
  BY <1>1, <1>2, OpenedIsEmitted
<1>4. PICK i \in 1 .. Len(serverSent) : f.ct = Seal("s2c", SrvPos(i - 1), serverSent[i])
  BY <1>3 DEF StreamInv
<1>5. /\ srvNonce \in Nonces
      /\ decryptNonce = SrvPos(k)
      /\ k \in 0 .. NonceSpace - 1
      /\ i - 1 \in 0 .. NonceSpace - 1
      /\ Len(serverSent) <= MaxSend
  BY DEF StreamInv, TypeOK
<1>6. SrvPos(i - 1) = SrvPos(k)
  BY <1>1, <1>4, <1>5 DEF Seal
<1>7. i = k + 1
  BY <1>5, <1>6, WrapDistinct DEF SrvPos
<1>8. f.ct.msg = serverSent[k + 1]
  BY <1>4, <1>7 DEF Seal
<1>9. decryptNonce' = SrvPos(k + 1)
  <2>1. k \in 0 .. NonceSpace - 2
    BY <1>5, <1>7
  <2>2. Inc(Wrap(srvNonce + k)) = Wrap(srvNonce + k + 1)
    <3>1. \A c \in Nonces, j \in 0 .. NonceSpace - 2 : Inc(Wrap(c + j)) = Wrap(c + j + 1)
      BY IncWrap
    <3>2. QED
      BY <1>5, <2>1, <3>1
  <2>3. srvNonce + k + 1 = srvNonce + (k + 1)
    BY <1>5 DEF Nonces
  <2>4. decryptNonce' = Inc(decryptNonce)
    BY Zenon DEF ClientReadAccept
  <2>5. QED
    BY <1>5, <2>2, <2>3, <2>4, Zenon DEF SrvPos
<1>10. /\ clientReceived \in Seq(Msgs)
       /\ serverSent \in Seq(Msgs)
       /\ clientReceived' = Append(clientReceived, serverSent[k + 1])
  BY <1>8 DEF ClientReadAccept, StreamInv, TypeOK
<1>11. QED
  BY <1>5, <1>7, <1>9, <1>10, AppendProperties DEF StreamInv

\* One step of any actor keeps the strengthening, while the peer sends
\* fewer messages than there are nonces.
LEMMA StepStreamInv ==
    ASSUME MaxSend < NonceSpace
    PROVE  StreamInv /\ [Next]_vars => StreamInv'
<1> SUFFICES ASSUME StreamInv, [Next]_vars PROVE StreamInv'
  OBVIOUS
<1>1. TypeOK'
  BY TypeStep DEF StreamInv
<1>2. CASE ClientSendInit
  BY <1>1, <1>2 DEF ClientSendInit, StreamInv, peerVars, SrvPos, InitsSent, Forgeable
<1>3. CASE ClientRecvServerInit
  <2>1. /\ phase = "awaitServerInit"
        /\ clientReceived = <<>>
        /\ UNCHANGED <<clientReceived, peerVars>>
    BY <1>3 DEF ClientRecvServerInit, StreamInv
  <2>2. UNCHANGED <<srvPhase, srvEncrypt, srvNonce, s2cCts, serverSent>>
    BY <2>1 DEF peerVars
  <2>3. s2c' \in Seq(Forgeable \cup InitsSent)
    <3>1. CASE s2c = <<>>
      BY <1>3, <3>1, EmptySeq DEF ClientRecvServerInit
    <3>2. CASE s2c # <<>>
      BY <1>3, <3>2, HeadTailProperties DEF ClientRecvServerInit, StreamInv
    <3>3. QED
      BY <3>1, <3>2
  <2>4. Forgeable' = Forgeable /\ InitsSent' = InitsSent
    BY <2>2 DEF Forgeable, InitsSent
  <2>5. phase' = "established" =>
          /\ srvPhase # "listening"
          /\ decryptNonce' = SrvPos(Len(clientReceived'))
    <3> SUFFICES ASSUME phase' = "established"
                 PROVE  /\ srvPhase # "listening"
                        /\ decryptNonce' = SrvPos(Len(clientReceived'))
      OBVIOUS
    <3>1. /\ s2c # <<>>
          /\ ServerInitAccepted(Head(s2c))
          /\ decryptNonce' = Head(s2c).nonce
      BY <1>3, Zenon DEF ClientRecvServerInit, StartConnection
    <3>2. Head(s2c) \in Forgeable \cup InitsSent
      BY <3>1, HeadTailProperties DEF StreamInv
    <3>3. Head(s2c) \in InitsSent
      BY <3>1, <3>2 DEF ServerInitAccepted, Forgeable, EncFrame, Junk
    <3>4. srvPhase # "listening" /\ Head(s2c).nonce = srvNonce
      BY <3>3 DEF InitsSent
    <3>5. srvNonce \in Nonces
      BY DEF StreamInv, TypeOK
    <3>6. QED
      BY <2>1, <3>1, <3>4, <3>5 DEF SrvPos, Wrap, Nonces
  <2>6. QED
    BY <1>1, <2>1, <2>2, <2>3, <2>4, <2>5 DEF StreamInv, SrvPos
<1>4. ASSUME NEW m \in Msgs, ClientWrite(m) PROVE StreamInv'
  BY <1>1, <1>4 DEF ClientWrite, StreamInv, peerVars, SrvPos, InitsSent, Forgeable
<1>5. CASE ClientRead
  <2>1. /\ phase = "established"
        /\ UNCHANGED <<phase, peerVars>>
    BY <1>5 DEF ClientRead
  <2>2. UNCHANGED <<srvPhase, srvEncrypt, srvNonce, s2cCts, serverSent>>
    BY <2>1 DEF peerVars
  <2>3. Forgeable' = Forgeable /\ InitsSent' = InitsSent
    BY <2>2 DEF Forgeable, InitsSent
  <2>4. /\ s2c' \in Seq(Forgeable \cup InitsSent)
        /\ decryptNonce' = SrvPos(Len(clientReceived'))
        /\ Len(clientReceived') <= Len(serverSent)
        /\ \A i \in 1 .. Len(clientReceived') : clientReceived'[i] = serverSent[i]
    <3>1. CASE s2c = <<>>
      BY <1>5, <3>1 DEF ClientRead, StreamInv
    <3>2. CASE s2c # <<>> /\ ReadOutcome(Head(s2c)) = "ok"
      <4>1. s2c' = Tail(s2c) /\ ClientReadAccept(Head(s2c))
        BY <1>5, <3>2 DEF ClientRead
      <4>2. Tail(s2c) \in Seq(Forgeable \cup InitsSent)
        BY <3>2, HeadTailProperties DEF StreamInv
      <4>3. QED
        BY <2>1, <3>2, <4>1, <4>2, AcceptInv
    <3>3. CASE s2c # <<>> /\ ReadOutcome(Head(s2c)) # "ok"
      <4>1. s2c' = Tail(s2c) /\ UNCHANGED <<decryptNonce, clientReceived>>
        BY <1>5, <3>3 DEF ClientRead
      <4>2. Tail(s2c) \in Seq(Forgeable \cup InitsSent)
        BY <3>3, HeadTailProperties DEF StreamInv
      <4>3. QED
        BY <2>1, <4>1, <4>2 DEF StreamInv
    <3>4. QED
      BY <3>1, <3>2, <3>3
  <2>5. QED
    BY <1>1, <2>1, <2>2, <2>3, <2>4 DEF StreamInv, SrvPos
<1>6. CASE ServerRecvClientInit
  <2>1. PICK si \in ServerInits :
          /\ s2c' = Append(s2c, si)
          /\ srvEncrypt' = si.nonce
          /\ srvNonce' = si.nonce
    BY <1>6 DEF ServerRecvClientInit
  <2>2. /\ srvPhase = "listening"
        /\ srvPhase' = "established"
        /\ UNCHANGED <<phase, clientReceived, serverSent, s2cCts>>
    BY <1>6 DEF ServerRecvClientInit
  <2>3. serverSent = <<>> /\ s2cCts = {} /\ phase # "established"
    BY <2>2 DEF StreamInv
  <2>4. si.nonce \in Nonces
    BY ServerInitsAssumption DEF ServerInitFrames
  <2>5. si \in InitsSent'
    BY <2>1, <2>2 DEF InitsSent
  <2>6. Forgeable' = Forgeable
    BY <2>2 DEF Forgeable
  <2>7. s2c' \in Seq(Forgeable' \cup InitsSent')
    <3>1. InitsSent = {}
      BY <2>2 DEF InitsSent
    <3>2. Forgeable \cup InitsSent \subseteq Forgeable' \cup InitsSent'
      BY <2>6, <3>1
    <3>3. s2c \in Seq(Forgeable' \cup InitsSent')
      BY <3>2, SeqMonotone DEF StreamInv
    <3>4. QED
      BY <2>1, <2>5, <3>3, AppendProperties
  <2>8. srvEncrypt' = SrvPos(Len(serverSent))'
    <3>1. Len(serverSent') = 0
      BY <2>2, <2>3
    <3>2. QED
      BY <2>1, <2>4, <3>1 DEF SrvPos, Wrap, Nonces
  <2>9. QED
    BY <1>1, <2>2, <2>3, <2>7, <2>8 DEF StreamInv
<1>7. ASSUME NEW m \in Msgs, ServerWrite(m) PROVE StreamInv'
  <2> DEFINE L == Len(serverSent)
             ct == Seal("s2c", srvEncrypt, m)
  <2>1. /\ srvPhase = "established"
        /\ L < MaxSend
        /\ s2c' = Append(s2c, EncFrame(srvEncrypt, ct))
        /\ s2cCts' = s2cCts \cup {ct}
        /\ srvEncrypt' = Inc(srvEncrypt)
        /\ serverSent' = Append(serverSent, m)
        /\ UNCHANGED <<phase, decryptNonce, clientReceived, srvPhase, srvNonce>>
    BY <1>7 DEF ServerWrite
  <2>2. /\ srvNonce \in Nonces
        /\ serverSent \in Seq(Msgs)
        /\ L \in 0 .. NonceSpace - 2
        /\ srvEncrypt = SrvPos(L)
    BY <2>1 DEF StreamInv, TypeOK
  <2>3. /\ Len(serverSent') = L + 1
        /\ \A i \in 1 .. L : serverSent'[i] = serverSent[i]
        /\ serverSent'[L + 1] = m
    BY <2>1, <2>2, AppendProperties
  <2>4. srvEncrypt' = SrvPos(L + 1)
    <3>1. \A c \in Nonces, j \in 0 .. NonceSpace - 2 : Inc(Wrap(c + j)) = Wrap(c + j + 1)
      BY IncWrap
    <3>2. srvNonce + L + 1 = srvNonce + (L + 1)
      BY <2>2 DEF Nonces
    <3>3. QED
      BY <2>1, <2>2, <3>1, <3>2, Zenon DEF SrvPos
  <2>5. \A c \in s2cCts' :
          \E i \in 1 .. L + 1 : c = Seal("s2c", SrvPos(i - 1), serverSent'[i])
    <3>1. ct = Seal("s2c", SrvPos((L + 1) - 1), serverSent'[L + 1])
      BY <2>2, <2>3
    <3>2. \A c \in s2cCts :
            \E i \in 1 .. L : c = Seal("s2c", SrvPos(i - 1), serverSent'[i])
      BY <2>3 DEF StreamInv
    <3>3. QED
      BY <2>1, <3>1, <3>2
  <2>6. Forgeable \subseteq Forgeable' /\ InitsSent' = InitsSent
    <3>1. s2cCts \cup {ForgedCt} \subseteq s2cCts' \cup {ForgedCt}
      BY <2>1
    <3>2. ASSUME NEW x \in Forgeable PROVE x \in Forgeable'
      <4>1. CASE x = Junk
        BY <4>1 DEF Forgeable
      <4>2. CASE x # Junk
        <5>1. PICK n \in Nonces \cup {WrongLen}, c \in s2cCts \cup {ForgedCt} :
                x = EncFrame(n, c)
          BY <4>2 DEF Forgeable
        <5>2. c \in s2cCts' \cup {ForgedCt}
          BY <3>1
        <5>3. QED
          BY <5>1, <5>2 DEF Forgeable
      <4>3. QED
        BY <4>1, <4>2
    <3>3. QED
      BY <2>1, <3>2 DEF InitsSent
  <2>7. s2c' \in Seq(Forgeable' \cup InitsSent')
    <3>1. s2c \in Seq(Forgeable' \cup InitsSent')
      BY <2>6, SeqMonotone DEF StreamInv
    <3>2. EncFrame(srvEncrypt, ct) \in Forgeable'
      BY <2>1, <2>2, SrvPosType DEF Forgeable, StreamInv, TypeOK
    <3>3. QED
      BY <2>1, <3>1, <3>2, AppendProperties
  <2>8. /\ Len(clientReceived') <= Len(serverSent')
        /\ \A i \in 1 .. Len(clientReceived') : clientReceived'[i] = serverSent'[i]
    BY <2>1, <2>3 DEF StreamInv
  <2>9. (phase = "established" => decryptNonce = SrvPos(Len(clientReceived)))'
    BY <2>1 DEF StreamInv, SrvPos
  <2>10. (srvPhase # "listening" => srvEncrypt = SrvPos(Len(serverSent)))'
    BY <2>1, <2>3, <2>4 DEF SrvPos
  <2>11. (\A c \in s2cCts :
            \E i \in 1 .. Len(serverSent) : c = Seal("s2c", SrvPos(i - 1), serverSent[i]))'
    BY <2>1, <2>3, <2>5 DEF SrvPos
  <2>12. (/\ Len(serverSent) <= MaxSend
          /\ srvPhase = "listening" => serverSent = <<>> /\ s2cCts = {}
          /\ phase # "established" => clientReceived = <<>>
          /\ phase = "established" => srvPhase # "listening")'
    BY <2>1, <2>2, <2>3 DEF StreamInv
  <2>13. QED
    BY <1>1, <2>7, <2>8, <2>9, <2>10, <2>11, <2>12 DEF StreamInv
<1>8. CASE ServerRead
  <2>1. /\ srvPhase = "established"
        /\ srvPhase' \in {"established", "broken"}
        /\ UNCHANGED <<phase, decryptNonce, clientReceived, s2c, srvEncrypt, srvNonce,
                       s2cCts, serverSent>>
    BY <1>8 DEF ServerRead
  <2>2. Forgeable' = Forgeable /\ InitsSent' = InitsSent
    BY <2>1 DEF Forgeable, InitsSent
  <2>3. QED
    BY <1>1, <2>1, <2>2 DEF StreamInv, SrvPos
<1>9. CASE TransportClose
  BY <1>1, <1>9 DEF TransportClose, StreamInv, peerVars, SrvPos, InitsSent, Forgeable
<1>10. CASE AttackerInject \/ AttackerDrop \/ AttackerSwap
  <2>1. UNCHANGED <<phase, decryptNonce, clientReceived, peerVars>>
    BY <1>10 DEF AttackerInject, AttackerDrop, AttackerSwap
  <2>2. UNCHANGED <<srvPhase, srvEncrypt, srvNonce, s2cCts, serverSent>>
    BY <2>1 DEF peerVars
  <2>3. Forgeable' = Forgeable /\ InitsSent' = InitsSent
    BY <2>2 DEF Forgeable, InitsSent
  <2>4. s2c' \in Seq(Forgeable \cup InitsSent)
    <3>1. s2c \in Seq(Forgeable \cup InitsSent)
      BY DEF StreamInv
    <3>2. CASE AttackerInject
      BY <3>1, <3>2, AppendProperties DEF AttackerInject
    <3>3. CASE AttackerDrop
      BY <3>1, <3>3, RemoveAtType DEF AttackerDrop
    <3>4. CASE AttackerSwap
      BY <3>1, <3>4, SwapType DEF AttackerSwap
    <3>5. QED
      BY <1>10, <3>2, <3>3, <3>4
  <2>5. QED
    BY <1>1, <2>1, <2>2, <2>3, <2>4 DEF StreamInv, SrvPos
<1>11. CASE UNCHANGED vars
  <2>1. Forgeable' = Forgeable /\ InitsSent' = InitsSent
    BY <1>11 DEF vars, Forgeable, InitsSent
  <2>2. QED
    BY <1>1, <1>11, <2>1 DEF vars, StreamInv, SrvPos
<1>12. QED
  BY <1>2, <1>3, <1>4, <1>5, <1>6, <1>7, <1>8, <1>9, <1>10, <1>11 DEF Next

\* Spec 4.4, for every nonce-space size and any attacker on the
\* server-to-client stream that drops, swaps, replays and forges frames:
\* as long as the peer sends fewer messages than there are nonces, what
\* SecureConnection::read returns is a prefix of the peer's payloads, in
\* order, none twice and none skipped.  A replay is refused because
\* decrypt_nonce has moved past it; a frame from further ahead, because its
\* nonce is not decrypt_nonce; a forgery, because it opens under no key.
THEOREM ReadsServerStream ==
    ASSUME MaxSend < NonceSpace
    PROVE  Spec => []ClientReceivesServerStream
<1>1. StreamInv => ClientReceivesServerStream
  <2> SUFFICES ASSUME StreamInv
               PROVE  IsPrefix(clientReceived, serverSent)
    BY DEF ClientReceivesServerStream
  <2>1. clientReceived \in Seq(Msgs) /\ serverSent \in Seq(Msgs)
    BY DEF StreamInv, TypeOK
  <2>2. clientReceived = SubSeq(serverSent, 1, Len(clientReceived))
    BY <2>1 DEF StreamInv
  <2>3. SubSeq(clientReceived, 1, Len(clientReceived)) = clientReceived
    BY <2>1, SubSeqFull
  <2>4. QED
    BY <2>2, <2>3 DEF IsPrefix, StreamInv
<1>2. QED
  BY <1>1, InitStreamInv, StepStreamInv, PTL DEF Spec

=============================================================================
